---- MODULE Spec2Model ----
(***************************************************************************)
(* A model of packages/kernel/Process.ts of kotonemu: the permission       *)
(* evaluator, the per-process descriptor table and the path operations of  *)
(* class Process, and the line discipline of class ReadInstance.           *)
(*                                                                         *)
(* The storage session (Filesystem.ts) and the path helpers (Utils.ts) are *)
(* not part of the source at hand; they are modelled from the interface    *)
(* the specification gives them (section 6) and are marked as such.        *)
(*                                                                         *)
(* Conventions.  A path is the sequence of its components (the result of   *)
(* resolve on an absolute path); << >> is the root.  A byte string and a   *)
(* text string are sequences of one-character strings; control characters  *)
(* are written by name ("ESC", "DEL", "BS", "BEL", "LF", "CR"; "LS" is the *)
(* line separator U+2028).  A decimal number inside a text is one element, *)
(* its numeral.  A set of open flags is a subset of {"READ", "WRITE"}.     *)
(***************************************************************************)
EXTENDS Integers, Sequences, FiniteSets, TLC

VARIABLES
    perm,        \* SpecPerm: the inputs and the result of one _isPermitted call
    fs,          \* the storage tree: path -> entry
    fd,          \* Process.fd: handle -> FileDescriptorData
    uid,         \* Process.uid
    gid,         \* Process.gid
    last,        \* the last call on the process: its name, its arguments, its outcome
    closed,      \* the handles closed and not returned by an open since
    children,    \* Process.children: the child processes, in the order of their spawn
    newPid,      \* Emulator.newPid: the process id the next spawn gives
    processName, \* Process.name
    args,        \* Process.args
    env,         \* Process.env: key -> value
    invoked,     \* the number of times exec has called an entry point
    buffer,      \* ReadInstance.buffer: [backward, forward]
    hasEnded,    \* ReadInstance.hasEnded
    chars,       \* process(): the decoded characters left when the call ended
    response,    \* process(): the echo string the call returned
    shiftCount,  \* process(): the trailing-blanks width when the call ended
    pc,          \* the instance: "idle" | "constructed" | "resumed" | "returned" | "thrown"
    step         \* the last process call: its argument and the instance before it

execVars == <<children, newPid, processName, args, env, invoked>>
procVars == <<fs, fd, uid, gid, last, closed, children, newPid, processName,
             args, env, invoked>>
lineVars == <<buffer, hasEnded, chars, response, shiftCount, pc, step>>
vars == <<perm, fs, fd, uid, gid, last, closed, children, newPid, processName, args, env, invoked,
          buffer, hasEnded, chars, response, shiftCount, pc, step>>

(***************************************************************************)
(* Integer helpers: JavaScript's |, & and >> on non-negative integers.     *)
(***************************************************************************)
RECURSIVE BitOr(_, _)
BitOr(a, b) ==
    IF a = 0 THEN b
    ELSE IF b = 0 THEN a
    ELSE (IF (a % 2 = 1) \/ (b % 2 = 1) THEN 1 ELSE 0) + 2 * BitOr(a \div 2, b \div 2)

RECURSIVE BitAnd(_, _)
BitAnd(a, b) ==
    IF a = 0 \/ b = 0 THEN 0
    ELSE (IF (a % 2 = 1) /\ (b % 2 = 1) THEN 1 ELSE 0) + 2 * BitAnd(a \div 2, b \div 2)

RECURSIVE Pow2(_)
Pow2(n) == IF n = 0 THEN 1 ELSE 2 * Pow2(n - 1)

ShiftRight(a, n) == a \div Pow2(n)

(***************************************************************************)
(* Process._isPermitted(entry, mode), with this.uid and this.gid explicit. *)
(*   owner_mode = entry.mode >> 6                                          *)
(*   group_mode = (entry.mode | 0o700) - 0o700 >> 3                        *)
(*   other_mode = (entry.mode | 0o770) - 0o770                             *)
(* 0o700 = 448, 0o770 = 504; - binds tighter than >>.                      *)
(***************************************************************************)
isPermittedNoGroup(entry, mode, u, g) ==
    LET owner_mode == ShiftRight(entry.mode, 6)
        other_mode == BitOr(entry.mode, 504) - 504
        current_mode == BitOr(IF entry.owner = u THEN owner_mode ELSE 0, other_mode)
    IN  BitAnd(current_mode, mode) # 0

isPermitted(entry, mode, u, g) ==
    LET owner_mode == ShiftRight(entry.mode, 6)
        group_mode == ShiftRight(BitOr(entry.mode, 448) - 448, 3)
        other_mode == BitOr(entry.mode, 504) - 504
        current_mode ==
            BitOr(BitOr(IF entry.owner = u THEN owner_mode ELSE 0,
                        IF entry.group = g THEN group_mode ELSE 0),
                  other_mode)
    IN  BitAnd(current_mode, mode) # 0

(***************************************************************************)
(* The file model (File.ts, at the end of the source): an entry carries a  *)
(* type tag, owner, group and mode; data is the payload of a regular file, *)
(* target the one of a symbolic link.                                      *)
(***************************************************************************)
isRegularFile(e) == e.type = "regular-file"
isExecutableFile(e) == e.type = "executable-file"
isDeviceFile(e) == e.type = "device"
isSymbolicLink(e) == e.type = "symlink"
isDirectory(e) == e.type = "directory"

Entry(t, o, g, m, d, tg) ==
    [type |-> t, owner |-> o, group |-> g, mode |-> m, data |-> d, target |-> tg]

NoEntry == Entry("none", 0, 0, 0, << >>, << >>)

(***************************************************************************)
(* Path helpers of Utils.ts on resolved absolute paths.                    *)
(***************************************************************************)
dirname(path) == IF Len(path) = 0 THEN path ELSE SubSeq(path, 1, Len(path) - 1)
basename(path) == IF Len(path) = 0 THEN "" ELSE path[Len(path)]
join(path, name) == Append(path, name)

IsPrefix(p, q) == Len(p) <= Len(q) /\ SubSeq(q, 1, Len(p)) = p

(***************************************************************************)
(* The storage session, from its interface:                                *)
(*   get(path, followLinks) -> File | fails(NotFound | NotADirectory)      *)
(*   create(parentPath, newEntry) -> fails(NotFound | AlreadyExists)       *)
(*   delete(path, recursive) -> fails(NotFound | DirectoryNotEmpty)        *)
(*   list(path) -> sequence of names                                       *)
(* A tree is a function from the existing paths to their entries.          *)
(***************************************************************************)
RECURSIVE FsGet(_, _, _)
FsGet(tree, path, follow) ==
    IF \E i \in 1..(Len(path) - 1) :
           /\ SubSeq(path, 1, i) \in DOMAIN tree
           /\ ~isDirectory(tree[SubSeq(path, 1, i)])
    THEN [err |-> "ENOTDIR", entry |-> NoEntry, path |-> path]
    ELSE IF path \notin DOMAIN tree
    THEN [err |-> "ENOENT", entry |-> NoEntry, path |-> path]
    ELSE IF follow /\ isSymbolicLink(tree[path])
    THEN FsGet(tree, tree[path].target, follow)
    ELSE [err |-> "OK", entry |-> tree[path], path |-> path]

FsCreate(tree, parent, name, entry) ==
    LET p == FsGet(tree, parent, TRUE) IN
    IF p.err # "OK" THEN [err |-> p.err, tree |-> tree]
    ELSE IF ~isDirectory(p.entry) THEN [err |-> "ENOTDIR", tree |-> tree]
    ELSE IF join(p.path, name) \in DOMAIN tree THEN [err |-> "EEXIST", tree |-> tree]
    ELSE [err |-> "OK",
          tree |-> [q \in DOMAIN tree \cup {join(p.path, name)} |->
                       IF q \in DOMAIN tree THEN tree[q] ELSE entry]]

FsList(tree, path) ==
    {q[Len(q)] : q \in {r \in DOMAIN tree : Len(r) = Len(path) + 1 /\ IsPrefix(path, r)}}

FsDelete(tree, path, recursive) ==
    IF path \notin DOMAIN tree THEN [err |-> "ENOENT", tree |-> tree]
    ELSE IF ~recursive /\ FsList(tree, path) # {} THEN [err |-> "ENOTEMPTY", tree |-> tree]
    ELSE [err |-> "OK",
          tree |-> [q \in {r \in DOMAIN tree : ~IsPrefix(path, r)} |-> tree[q]]]

(***************************************************************************)
(* The descriptor table.  this.fd is a JavaScript array used as a map: its *)
(* keys are the handles.  A handle is a number; the two non-integer values *)
(* the allocation can produce are encoded as negative integers.            *)
(*   Math.max() of no argument is -Infinity, and -Infinity + 1 = -Infinity *)
(*   parseInt("-Infinity") and parseInt("NaN") are NaN                     *)
(*   Math.max(..., NaN, ...) is NaN, and NaN + 1 = NaN                     *)
(***************************************************************************)
NegInfinity == -1
NaN == -2
Infinity == 99

parseInt(k) == IF k >= 0 THEN k ELSE NaN

MathMax(S) ==
    IF S = {} THEN NegInfinity
    ELSE IF NaN \in S THEN NaN
    ELSE CHOOSE m \in S : \A x \in S : x <= m

PlusOne(x) == IF x < 0 THEN x ELSE x + 1

toString(h) ==
    IF h = NegInfinity THEN "-Infinity" ELSE IF h = NaN THEN "NaN" ELSE ToString(h)

(* join(this.emulator.PROCESS_DIRECTORY, this.id.toString(), "fd") *)
FdDirectoryOf(id) == <<"proc", toString(id), "fd">>

(* the descriptor directory of the first process, whose id is 1 *)
FdDirectory == FdDirectoryOf(1)

FdData(pathname, flags, offset) ==
    [pathname |-> pathname, flags |-> flags, offset |-> offset]

(* The process state the operations act on, and what a call leaves behind: *)
(* an error name ("OK" when the call returns), the returned handle or      *)
(* count, the returned bytes, and the state at the return or the throw.    *)
State == [fs |-> fs, fd |-> fd, uid |-> uid, gid |-> gid, id |-> 1]

Result(s, err, ret, data) ==
    [err |-> err, ret |-> ret, data |-> data, fs |-> s.fs, fd |-> s.fd]

requireFileDescriptorData(s, h) ==
    IF h \in DOMAIN s.fd THEN "OK" ELSE "EBADFD"

nextFdIdFirstFree(fdt) ==
    CHOOSE n \in 0..Cardinality(DOMAIN fdt) : n \notin DOMAIN fdt

nextFdId(fdt) == PlusOne(MathMax({parseInt(k) : k \in DOMAIN fdt}))

createFileDescriptor(s, pathname, flags) ==
    LET fdId == nextFdId(s.fd) IN
    [fdId |-> fdId,
     fd |-> [k \in DOMAIN s.fd \cup {fdId} |->
                IF k = fdId THEN FdData(pathname, flags, 0) ELSE s.fd[k]]]

(***************************************************************************)
(* Process.open(pathname, flags)                                           *)
(***************************************************************************)
NewRegularFile == Entry("regular-file", 0, 0, 511, << >>, << >>)

OpenDescriptor(s, entry, pathname, flags) ==
    IF isDirectory(entry) THEN Result(s, "EISDIR", 0, << >>)
    ELSE IF "READ" \in flags /\ ~isPermitted(entry, 4, s.uid, s.gid)
    THEN Result(s, "EACCES", 0, << >>)
    ELSE IF "WRITE" \in flags /\ ~isPermitted(entry, 2, s.uid, s.gid)
    THEN Result(s, "EACCES", 0, << >>)
    ELSE LET c == createFileDescriptor(s, pathname, flags)
             s1 == [s EXCEPT !.fd = c.fd]
             l == FsCreate(s1.fs, FdDirectoryOf(s.id), toString(c.fdId),
                           Entry("symlink", 0, 0, 448, << >>, pathname))
         IN  IF l.err # "OK" THEN Result(s1, l.err, 0, << >>)
             ELSE Result([s1 EXCEPT !.fs = l.tree], "OK", c.fdId, << >>)

OpenOpNoParentCheck(s, pathname, flags) ==
    LET g == FsGet(s.fs, pathname, FALSE) IN
    IF g.err = "OK" THEN OpenDescriptor(s, g.entry, pathname, flags)
    ELSE IF "WRITE" \in flags /\ g.err = "ENOENT"
    THEN LET c == FsCreate(s.fs, dirname(pathname), basename(pathname), NewRegularFile)
             s1 == [s EXCEPT !.fs = c.tree]
             g2 == FsGet(s1.fs, pathname, TRUE)
         IN  IF c.err # "OK" THEN Result(s, c.err, 0, << >>)
             ELSE IF g2.err # "OK" THEN Result(s1, g2.err, 0, << >>)
             ELSE OpenDescriptor(s1, g2.entry, pathname, flags)
    ELSE Result(s, g.err, 0, << >>)

OpenOp(s, pathname, flags) ==
    LET g == FsGet(s.fs, pathname, FALSE) IN
    IF g.err = "OK" THEN OpenDescriptor(s, g.entry, pathname, flags)
    ELSE IF "WRITE" \in flags /\ g.err = "ENOENT"
    THEN LET pg == FsGet(s.fs, dirname(pathname), FALSE) IN
         IF pg.err # "OK" THEN Result(s, pg.err, 0, << >>)
         ELSE IF ~isPermitted(pg.entry, 2, s.uid, s.gid) THEN Result(s, "EACCES", 0, << >>)
         ELSE LET c == FsCreate(s.fs, dirname(pathname), basename(pathname), NewRegularFile)
                  s1 == [s EXCEPT !.fs = c.tree]
                  g2 == FsGet(s1.fs, pathname, TRUE)
              IN  IF c.err # "OK" THEN Result(s, c.err, 0, << >>)
                  ELSE IF g2.err # "OK" THEN Result(s1, g2.err, 0, << >>)
                  ELSE OpenDescriptor(s1, g2.entry, pathname, flags)
    ELSE Result(s, g.err, 0, << >>)

(***************************************************************************)
(* Process.unlink(pathname, flags) and Process.close(fd)                   *)
(***************************************************************************)
UnlinkOp(s, pathname, flags) ==
    LET g == FsGet(s.fs, pathname, FALSE) IN
    IF g.err # "OK" THEN Result(s, g.err, 0, << >>)
    ELSE IF "REMOVE_DIR" \in flags
    THEN IF ~isDirectory(g.entry) THEN Result(s, "ENOTDIR", 0, << >>)
         ELSE LET d1 == FsDelete(s.fs, pathname, TRUE)
                  s1 == [s EXCEPT !.fs = d1.tree]
                  d2 == FsDelete(s1.fs, pathname, FALSE)
              IN  IF d1.err # "OK" THEN Result(s, d1.err, 0, << >>)
                  ELSE IF d2.err # "OK" THEN Result(s1, d2.err, 0, << >>)
                  ELSE Result([s1 EXCEPT !.fs = d2.tree], "OK", 0, << >>)
    ELSE IF isDirectory(g.entry) THEN Result(s, "EISDIR", 0, << >>)
    ELSE LET d == FsDelete(s.fs, pathname, FALSE) IN
         IF d.err # "OK" THEN Result(s, d.err, 0, << >>)
         ELSE Result([s EXCEPT !.fs = d.tree], "OK", 0, << >>)

DeleteFd(fdt, h) == [k \in DOMAIN fdt \ {h} |-> fdt[k]]

CloseOpKeepEntry(s, h) ==
    LET u == UnlinkOp(s, join(FdDirectoryOf(s.id), toString(h)), {}) IN
    u

CloseOp(s, h) ==
    LET u == UnlinkOp(s, join(FdDirectoryOf(s.id), toString(h)), {}) IN
    IF u.err # "OK" THEN u
    ELSE [u EXCEPT !.fd = DeleteFd(u.fd, h)]

(***************************************************************************)
(* ArrayBuffer.slice(begin, end) for 0 <= begin, and concatArrayBuffer.    *)
(***************************************************************************)
Min(a, b) == IF a <= b THEN a ELSE b

Slice(data, begin, end) ==
    LET b == Min(begin, Len(data))
        e == Min(end, Len(data))
    IN  IF e <= b THEN << >> ELSE SubSeq(data, b + 1, e)

SliceFrom(data, begin) == Slice(data, begin, Len(data))

(***************************************************************************)
(* Process.seek(fd, offset)                                                *)
(***************************************************************************)
SeekOp(s, h, offset) ==
    IF requireFileDescriptorData(s, h) # "OK" THEN Result(s, "EBADFD", 0, << >>)
    ELSE Result([s EXCEPT !.fd[h].offset = offset], "OK", 0, << >>)

(***************************************************************************)
(* Process.read(fd, count).  Every regular or executable entry of the      *)
(* model has its data; a device's read is left to the device.              *)
(***************************************************************************)
(* a variant of read that starts at the head of the file *)
ReadOpFromStart(s, h, count) ==
    IF requireFileDescriptorData(s, h) # "OK" THEN Result(s, "EBADFD", 0, << >>)
    ELSE IF "READ" \notin s.fd[h].flags THEN Result(s, "EBADFD", 0, << >>)
    ELSE LET g == FsGet(s.fs, s.fd[h].pathname, TRUE)
         IN  IF g.err # "OK" THEN Result(s, g.err, 0, << >>)
             ELSE LET data == Slice(g.entry.data, 0, count)
                  IN  Result(s, "OK", Len(data), data)

ReadOp(s, h, count) ==
    IF requireFileDescriptorData(s, h) # "OK" THEN Result(s, "EBADFD", 0, << >>)
    ELSE IF "READ" \notin s.fd[h].flags THEN Result(s, "EBADFD", 0, << >>)
    ELSE LET fdd == s.fd[h]
             g == FsGet(s.fs, fdd.pathname, TRUE)
         IN  IF g.err # "OK" THEN Result(s, g.err, 0, << >>)
             ELSE IF isDirectory(g.entry) THEN Result(s, "EISDIR", 0, << >>)
             ELSE IF isRegularFile(g.entry) \/ isExecutableFile(g.entry)
             THEN LET data == Slice(g.entry.data, fdd.offset, fdd.offset + count)
                      sk == SeekOp(s, h, fdd.offset + Len(data))
                  IN  [sk EXCEPT !.data = data, !.ret = Len(data)]
             ELSE IF isDeviceFile(g.entry) THEN Result(s, "OK", 0, g.entry.data)
             ELSE Result(s, "EIO", 0, << >>)

(***************************************************************************)
(* Process.write(fd, buf, count)                                           *)
(***************************************************************************)
WriteOverwrite(old, offset, data) ==
    Slice(old, 0, offset) \o data \o SliceFrom(old, offset + Len(data))

WriteSplice(old, offset, data) ==
    Slice(old, 0, offset) \o data \o SliceFrom(old, offset)

WriteOp(s, h, buf, count) ==
    IF requireFileDescriptorData(s, h) # "OK" THEN Result(s, "EBADFD", 0, << >>)
    ELSE IF "WRITE" \notin s.fd[h].flags THEN Result(s, "EBADFD", 0, << >>)
    ELSE LET fdd == s.fd[h]
             g == FsGet(s.fs, fdd.pathname, TRUE)
         IN  IF g.err # "OK" THEN Result(s, g.err, 0, << >>)
             ELSE IF isDirectory(g.entry) THEN Result(s, "EISDIR", 0, << >>)
             ELSE IF isRegularFile(g.entry)
             THEN LET data == Slice(buf, 0, count)
                      s1 == [s EXCEPT !.fs[g.path].data = WriteSplice(g.entry.data, fdd.offset, data)]
                      sk == SeekOp(s1, h, fdd.offset + Len(data))
                  IN  [sk EXCEPT !.ret = Len(data)]
             ELSE IF isDeviceFile(g.entry) THEN Result(s, "OK", 0, << >>)
             ELSE Result(s, "EIO", 0, << >>)

(***************************************************************************)
(* Process.mkdir(pathname, mode, recursive).  ret counts the calls of      *)
(* filesystem.create the call and its recursive calls make; data lists the *)
(* paths they created, in order.                                           *)
(***************************************************************************)
NewDirectory(mode) == Entry("directory", 0, 0, mode, << >>, << >>)

MkdirOnce(tree, pathname, mode) ==
    LET c == FsCreate(tree, dirname(pathname), basename(pathname), NewDirectory(mode)) IN
    [err |-> c.err, tree |-> c.tree, ret |-> 1,
     data |-> IF c.err = "OK" THEN <<pathname>> ELSE << >>]

RECURSIVE MkdirRec(_, _, _, _)
MkdirRec(tree, pathname, mode, recursive) ==
    LET c == MkdirOnce(tree, pathname, mode) IN
    IF c.err = "OK" THEN c
    ELSE IF recursive /\ c.err = "ENOENT"
    THEN LET r1 == MkdirRec(tree, dirname(pathname), mode, recursive) IN
         IF r1.err # "OK" THEN [r1 EXCEPT !.ret = 1 + r1.ret]
         ELSE LET r2 == MkdirRec(r1.tree, pathname, mode, recursive) IN
              [r2 EXCEPT !.ret = 1 + r1.ret + r2.ret, !.data = r1.data \o r2.data]
    ELSE c

MkdirOpParentOnly(s, pathname, mode, recursive) ==
    LET c == MkdirOnce(s.fs, pathname, mode)
        r == IF recursive /\ c.err = "ENOENT"
             THEN MkdirRec(s.fs, dirname(pathname), mode, recursive) ELSE c
    IN  Result([s EXCEPT !.fs = r.tree], r.err, r.ret, r.data)

MkdirOp(s, pathname, mode, recursive) ==
    LET r == MkdirRec(s.fs, pathname, mode, recursive) IN
    Result([s EXCEPT !.fs = r.tree], r.err, r.ret, r.data)

(***************************************************************************)
(* Bounds of the model and the inputs the calls are given.                 *)
(***************************************************************************)
MaxFd == 1
MaxOpen == 2
MaxData == 3
MaxDepth == 3

Handles == {NegInfinity, NaN} \cup 0..MaxFd
FlagSets == SUBSET {"READ", "WRITE"}
Buffers == {<<"A", "B">>, <<"X">>}
Counts == {1, Infinity}

(* The paths given to open: a directory, two paths of regular files in it  *)
(* (present or not), and a path whose parent is missing.                   *)
OpenPaths == {<<"a">>, <<"a", "a">>, <<"a", "b">>, <<"b", "b">>}

(* The paths given to mkdir: "a" repeated, then "a" or "b".                *)
DirPaths ==
    {p \in UNION {[1..n -> {"a", "b"}] : n \in 1..MaxDepth} :
        \A i \in 1..(Len(p) - 1) : p[i] = "a"}

(***************************************************************************)
(* The storage tree at the start: the root, the descriptor directory of    *)
(* the process, and seeds.                                                 *)
(***************************************************************************)
BaseTree ==
    [p \in {<< >>, <<"proc">>, <<"proc", "1">>, FdDirectory} |->
        Entry("directory", 0, 0, 493, << >>, << >>)]

Plant(tree, path, entry) ==
    [q \in DOMAIN tree \cup {path} |-> IF q = path THEN entry ELSE tree[q]]

(* /a/b absent, and /a such that uid 0, gid 0 may write to it through the  *)
(* owner bits (0o755 of uid 0) or the group bits (0o570 of gid 0), or may  *)
(* not write to it (0o755 of another owner and group).                     *)
DirSeeds ==
    {Plant(BaseTree, <<"a">>, Entry("directory", d[1], d[2], d[3], << >>, << >>)) :
        d \in {<<0, 0, 493>>, <<5, 0, 376>>, <<5, 9, 493>>}}

(* /a/b a regular file: 0o644 of uid 0, and 0o600 of another owner.        *)
FileSeeds ==
    {Plant(Plant(BaseTree, <<"a">>, Entry("directory", 0, 0, 493, << >>, << >>)),
           <<"a", "b">>, Entry("regular-file", f[1], f[2], f[3], f[4], << >>)) :
        f \in {<<0, 0, 420, <<"A", "B">>>>, <<5, 9, 384, << >>>>}}

(* ProcessInit.fd: absent (this.fd = []), or descriptors as open leaves    *)
(* them, each with its link in the descriptor directory.                   *)
NoFd == [k \in {} |-> FdData(<< >>, {}, 0)]

OneFd == [k \in {0} |-> FdData(<<"a", "b">>, {"READ", "WRITE"}, 0)]

TwoFds ==
    [k \in {0, 1} |->
        FdData(<<"a", "b">>, IF k = 0 THEN {"READ", "WRITE"} ELSE {"WRITE"}, 0)]

WithLinks(tree, fdt) ==
    [q \in DOMAIN tree \cup {join(FdDirectory, toString(k)) : k \in DOMAIN fdt} |->
        IF q \in DOMAIN tree THEN tree[q]
        ELSE Entry("symlink", 0, 0, 448, << >>,
                   fdt[CHOOSE k \in DOMAIN fdt : join(FdDirectory, toString(k)) = q].pathname)]

(***************************************************************************)
(* The record of the last call: its name, its arguments, its outcome.      *)
(***************************************************************************)
Call(op, path, flags, h, n, buf, rec) ==
    [op |-> op, path |-> path, flags |-> flags, h |-> h, n |-> n, buf |-> buf, rec |-> rec]

NoCall == Call("none", << >>, {}, 0, 0, << >>, FALSE)

Last(call, r) ==
    [op |-> call.op, path |-> call.path, flags |-> call.flags, h |-> call.h,
     n |-> call.n, buf |-> call.buf, rec |-> call.rec,
     err |-> r.err, ret |-> r.ret, data |-> r.data]

(* closed: the handles a close has removed and no open has returned since  *)
ClosedAfter(call, r) ==
    IF call.op = "close" /\ r.err = "OK" THEN closed \cup {call.h}
    ELSE IF call.op = "open" /\ r.err = "OK" THEN closed \ {r.ret}
    ELSE closed

Apply(call, r) ==
    /\ fs' = r.fs
    /\ fd' = r.fd
    /\ last' = Last(call, r)
    /\ closed' = ClosedAfter(call, r)
    /\ UNCHANGED <<uid, gid, perm>>
    /\ UNCHANGED execVars
    /\ UNCHANGED lineVars

DataWithin(tree) == \A p \in DOMAIN tree : Len(tree[p].data) <= MaxData

(* new ReadInstance() *)
NewInstance == [buffer |-> [forward |-> << >>, backward |-> << >>], hasEnded |-> FALSE]

NoStep == [value |-> << >>, before |-> NewInstance]

LineIdle ==
    /\ buffer = NewInstance.buffer
    /\ hasEnded = NewInstance.hasEnded
    /\ chars = << >>
    /\ response = << >>
    /\ shiftCount = 0
    /\ pc = "idle"
    /\ step = NoStep

PermIdle ==
    perm = [mode |-> 0, owner |-> 0, group |-> 0, uid |-> 0, gid |-> 0,
            req |-> 0, result |-> FALSE, done |-> FALSE]

(* ProcessInit.env of the first process *)
InitEnv == [k \in {"PWD", "HOME"} |-> IF k = "PWD" THEN "/" ELSE "/root"]

(* new Process(...): uid and gid are 0 *)
ProcInit(tree, fdt) ==
    /\ fs = WithLinks(tree, fdt)
    /\ fd = fdt
    /\ uid = 0
    /\ gid = 0
    /\ closed = {}
    /\ last = Last(NoCall, [err |-> "OK", ret |-> 0, data |-> << >>])
    /\ children = << >>
    /\ newPid = 2
    /\ processName = "init"
    /\ args = << >>
    /\ env = InitEnv
    /\ invoked = 0

(***************************************************************************)
(* The calls on the process.                                               *)
(***************************************************************************)
Open(pathname, flags) ==
    LET r == OpenOp(State, pathname, flags) IN
    /\ r.ret <= MaxFd
    /\ Cardinality(DOMAIN r.fd) <= MaxOpen
    /\ Apply(Call("open", pathname, flags, 0, 0, << >>, FALSE), r)

Close(h) == Apply(Call("close", << >>, {}, h, 0, << >>, FALSE), CloseOp(State, h))

Seek(h, offset) ==
    Apply(Call("seek", << >>, {}, h, offset, << >>, FALSE), SeekOp(State, h, offset))

Read(h, count) ==
    Apply(Call("read", << >>, {}, h, count, << >>, FALSE), ReadOp(State, h, count))

Write(h, buf, count) ==
    LET r == WriteOp(State, h, buf, count) IN
    /\ DataWithin(r.fs)
    /\ Apply(Call("write", << >>, {}, h, count, buf, FALSE), r)

Mkdir(pathname, mode, recursive) ==
    Apply(Call("mkdir", pathname, {}, 0, mode, << >>, recursive),
          MkdirOp(State, pathname, mode, recursive))

(***************************************************************************)
(* Spec: the life of descriptors.  open and close with every input; seek,  *)
(* read and write with arguments that move no cursor and no byte (offset   *)
(* 0, count 0, an empty buffer), so that the descriptor table stays small. *)
(***************************************************************************)
Init ==
    /\ \/ \E tree \in DirSeeds : ProcInit(tree, NoFd)
       \/ \E tree \in FileSeeds : ProcInit(tree, OneFd)
    /\ LineIdle
    /\ PermIdle

Next ==
    \/ \E p \in OpenPaths : \E fl \in FlagSets : Open(p, fl)
    \/ \E h \in Handles : Close(h)
    \/ \E h \in Handles : Seek(h, 0)
    \/ \E h \in Handles : Read(h, 0)
    \/ \E h \in Handles : Write(h, << >>, Infinity)

Spec == Init /\ [][Next]_vars

(***************************************************************************)
(* SpecIO: seek, read and write through two descriptors on /a/b.           *)
(***************************************************************************)
InitIO ==
    /\ \E data \in {<< >>, <<"A", "B">>} :
          ProcInit(Plant(Plant(BaseTree, <<"a">>, Entry("directory", 0, 0, 493, << >>, << >>)),
                         <<"a", "b">>, Entry("regular-file", 0, 0, 420, data, << >>)),
                   TwoFds)
    /\ LineIdle
    /\ PermIdle

NextIO ==
    \/ \E h \in DOMAIN TwoFds \cup {NaN} : \E o \in 0..MaxData : Seek(h, o)
    \/ \E h \in DOMAIN TwoFds \cup {NaN} : \E c \in Counts : Read(h, c)
    \/ \E h \in DOMAIN TwoFds \cup {NaN} : \E b \in Buffers : \E c \in Counts : Write(h, b, c)

SpecIO == InitIO /\ [][NextIO]_vars

(***************************************************************************)
(* SpecDir: mkdir, from a tree with or without a regular file /b.          *)
(***************************************************************************)
InitDir ==
    /\ \E tree \in {BaseTree, Plant(BaseTree, <<"b">>, NewRegularFile)} : ProcInit(tree, NoFd)
    /\ LineIdle
    /\ PermIdle

NextDir ==
    \E p \in DirPaths : \E m \in {493, 448} : \E rec \in BOOLEAN : Mkdir(p, m, rec)

SpecDir == InitDir /\ [][NextDir]_vars

(***************************************************************************)
(* What the specification says of the permission bits, computed from the   *)
(* three octal digits of the mode (section 4.1).                           *)
(***************************************************************************)
OctalDigit(mode, k) == (mode \div Pow2(3 * k)) % 8

HasBit(n, bit) == (n \div bit) % 2 = 1

Grants(entry, req, u, g) == \E bit \in {1, 2, 4} :
    /\ HasBit(req, bit)
    /\ \/ u = entry.owner /\ HasBit(OctalDigit(entry.mode, 2), bit)
       \/ g = entry.group /\ HasBit(OctalDigit(entry.mode, 1), bit)
       \/ HasBit(OctalDigit(entry.mode, 0), bit)

StateAfter == [fs |-> fs', fd |-> fd', uid |-> uid', gid |-> gid', id |-> 1]

(***************************************************************************)
(* C2.  open with WRITE on a path that does not exist, in an existing      *)
(* parent directory: when the parent grants write to the process, the call *)
(* returns, a zero-length regular file is at the path, and the returned    *)
(* handle is a new descriptor on the path with offset 0; when the parent   *)
(* does not grant write, the call fails with EACCES and neither the        *)
(* storage tree nor the descriptor table changes.                          *)
(***************************************************************************)
OpenCreateCase ==
    /\ last'.op = "open"
    /\ "WRITE" \in last'.flags
    /\ FsGet(fs, last'.path, FALSE).err = "ENOENT"
    /\ FsGet(fs, dirname(last'.path), FALSE).err = "OK"
    /\ isDirectory(fs[dirname(last'.path)])

C2_OpenCreatesOrDenies ==
    [][OpenCreateCase =>
          IF Grants(fs[dirname(last'.path)], 2, uid, gid)
          THEN /\ last'.err = "OK"
               /\ last'.path \in DOMAIN fs'
               /\ isRegularFile(fs'[last'.path])
               /\ fs'[last'.path].data = << >>
               /\ last'.ret \notin DOMAIN fd
               /\ last'.ret \in DOMAIN fd'
               /\ fd'[last'.ret] = FdData(last'.path, last'.flags, 0)
          ELSE /\ last'.err = "EACCES"
               /\ fs' = fs
               /\ fd' = fd]_vars

(* C2, the part the code keeps: the denied call changes nothing, and the   *)
(* granted call leaves a zero-length regular file at the path.             *)
C2_FileCreatedOrDenied ==
    [][OpenCreateCase =>
          IF Grants(fs[dirname(last'.path)], 2, uid, gid)
          THEN /\ last'.path \in DOMAIN fs'
               /\ isRegularFile(fs'[last'.path])
               /\ fs'[last'.path].data = << >>
          ELSE /\ last'.err = "EACCES"
               /\ fs' = fs
               /\ fd' = fd]_vars

C5_CloseUnknownIsBadFd ==
    [][(last'.op = "close" /\ last'.h \notin DOMAIN fd)
          => (last'.err = "EBADFD" /\ fd' = fd /\ fs' = fs)]_vars

(***************************************************************************)
(* C6.  Every handle a successful open returns is a non-negative integer   *)
(* that was not in the table before the call, and, when the table was not  *)
(* empty, is one more than the largest handle in it.                       *)
(***************************************************************************)
C6_FreshHandle ==
    [][(last'.op = "open" /\ last'.err = "OK")
          => /\ last'.ret >= 0
             /\ last'.ret \notin DOMAIN fd
             /\ (DOMAIN fd # {} =>
                    \A k \in DOMAIN fd : k < last'.ret /\ (last'.ret - 1) \in DOMAIN fd)]_vars

(***************************************************************************)
(* C3.  A write that returns, through a descriptor whose cursor o is       *)
(* within the regular file (0 <= o <= length), of the n bytes w =          *)
(* buf[0, count): the data becomes old[0, o) ++ w ++ old[o, length), so    *)
(* the file grows by exactly n and keeps every old byte; the cursor        *)
(* becomes o + n; and, when the descriptor may read, seeking back to o and *)
(* reading n bytes returns w.                                              *)
(***************************************************************************)
Target(h) == FsGet(fs, fd[h].pathname, TRUE).path

Written(call) == SubSeq(call.buf, 1, Min(call.n, Len(call.buf)))

ReadBack(s, h, o, n) == ReadOp([s EXCEPT !.fd = SeekOp(s, h, o).fd], h, n)

C3_WriteInserts ==
    [][(/\ last'.op = "write"
        /\ last'.err = "OK"
        /\ fd[last'.h].offset <= Len(fs[Target(last'.h)].data))
          => LET h == last'.h
                 o == fd[h].offset
                 old == fs[Target(h)].data
                 new == fs'[Target(h)].data
                 w == Written(last')
             IN  /\ new = SubSeq(old, 1, o) \o w \o SubSeq(old, o + 1, Len(old))
                 /\ Len(new) = Len(old) + Len(w)
                 /\ fd'[h].offset = o + Len(w)
                 /\ ("READ" \in fd[h].flags =>
                        LET r == ReadBack(StateAfter, h, o, Len(w)) IN
                        r.err = "OK" /\ r.data = w)]_vars

(* "X" written at offset 1 of "AB" has given "AXB" *)
C3_Witness ==
    /\ last.op = "write"
    /\ last.err = "OK"
    /\ last.buf = <<"X">>
    /\ "READ" \in fd[last.h].flags
    /\ fd[last.h].offset = 2
    /\ fs[<<"a", "b">>].data = <<"A", "X", "B">>

(***************************************************************************)
(* C10.  mkdir(path, mode, recursive) on a path whose parent is missing,   *)
(* under an existing root: with recursive set the call returns, having     *)
(* created the target and each of its k - 1 missing ancestors exactly once *)
(* (and nothing else) in 2k - 1 calls of create, none of which failed      *)
(* with EEXIST; without recursive it fails with ENOENT and creates         *)
(* nothing.                                                                *)
(***************************************************************************)
Prefixes(path) == {SubSeq(path, 1, i) : i \in 1..Len(path)}

Missing(tree, path) == {q \in Prefixes(path) : q \notin DOMAIN tree}

MkdirDeepCase ==
    /\ last'.op = "mkdir"
    /\ << >> \in DOMAIN fs
    /\ dirname(last'.path) \notin DOMAIN fs
    /\ \A q \in Prefixes(last'.path) : q \in DOMAIN fs => isDirectory(fs[q])

C10_MkdirRecursive ==
    [][MkdirDeepCase =>
          LET made == last'.data
              missing == Missing(fs, last'.path)
          IN  IF last'.rec
              THEN /\ last'.err = "OK"
                   /\ DOMAIN fs' = DOMAIN fs \cup missing
                   /\ \A q \in DOMAIN fs : fs'[q] = fs[q]
                   /\ \A q \in missing : fs'[q] = NewDirectory(last'.n)
                   /\ Len(made) = Cardinality(missing)
                   /\ {made[i] : i \in 1..Len(made)} = missing
                   /\ last'.ret = 2 * Cardinality(missing) - 1
              ELSE /\ last'.err = "ENOENT"
                   /\ fs' = fs
                   /\ made = << >>]_vars

(* a recursive mkdir has created two missing ancestors and the target *)
C10_Witness ==
    /\ last.op = "mkdir"
    /\ last.rec
    /\ last.err = "OK"
    /\ Len(last.data) = 3
    /\ last.ret = 5
    /\ last.path \in DOMAIN fs

(***************************************************************************)
(* SpecPerm: one call of _isPermitted on an entry of any 9-bit mode.       *)
(***************************************************************************)
ProcIdle == ProcInit(BaseTree, NoFd)

InitPerm ==
    /\ \E m \in 0..511 : \E o \in {5, 9} : \E g \in {5, 9} :
          perm = [mode |-> m, owner |-> o, group |-> g, uid |-> 0, gid |-> 0,
                  req |-> 0, result |-> FALSE, done |-> FALSE]
    /\ ProcIdle
    /\ LineIdle

CheckPermitted(u, g, req) ==
    /\ ~perm.done
    /\ perm' = [perm EXCEPT !.uid = u, !.gid = g, !.req = req, !.done = TRUE,
                            !.result = isPermitted(perm, req, u, g)]
    /\ UNCHANGED procVars
    /\ UNCHANGED lineVars

NextPerm == \E u \in {1, 5, 9} : \E g \in {1, 5, 9} : \E req \in 1..7 : CheckPermitted(u, g, req)

SpecPerm == InitPerm /\ [][NextPerm]_vars

(***************************************************************************)
(* C1.  _isPermitted returns true exactly when one of the requested bits   *)
(* is among the owner bits (if the acting uid is the owner), the group     *)
(* bits (if the acting gid is the group) or the other bits of the mode.    *)
(* For mode 0o640, owner 5, group 9: uid 5 may read and write and may not  *)
(* execute; uid 1 with gid 9 may read and may not write.                   *)
(***************************************************************************)
C1_PermissionEvaluator ==
    perm.done =>
        /\ perm.result = Grants(perm, perm.req, perm.uid, perm.gid)
        /\ (perm.mode = 416 /\ perm.owner = 5 /\ perm.group = 9 /\ perm.uid = 5) =>
              /\ perm.req \in {2, 4} => perm.result
              /\ perm.req = 1 => ~perm.result
        /\ (perm.mode = 416 /\ perm.owner = 5 /\ perm.group = 9
               /\ perm.uid = 1 /\ perm.gid = 9) =>
              /\ perm.req = 4 => perm.result
              /\ perm.req = 2 => ~perm.result

(* uid 1, gid 9 has been granted read on the 0o640 entry through the group *)
C1_Witness ==
    /\ perm.done
    /\ perm.mode = 416 /\ perm.owner = 5 /\ perm.group = 9
    /\ perm.uid = 1 /\ perm.gid = 9 /\ perm.req = 4
    /\ perm.result

(***************************************************************************)
(* class ReadInstance: the line discipline.                                *)
(*                                                                         *)
(* process(value) runs to its end without yielding, so it is one action.   *)
(* Its locals (chars, response, shiftCount) travel in a record together    *)
(* with the fields of the instance; err is "TypeError" once a statement    *)
(* has thrown, and the statements after it are then not executed.          *)
(***************************************************************************)
Undefined == "undefined"

(* . in a regular expression with the u flag: any character but a line     *)
(* terminator (LF, CR, U+2028, U+2029)                                      *)
Dot(c) == c \notin {"LF", "CR", "LS", "PS"}

(* the UTF-16 code units of a character: two for U+1F600, which lies      *)
(* outside the basic plane, one for every other character at hand          *)
Units(c) == IF c = "U+1F600" THEN 2 ELSE 1

(* getLength: str.length, the count of UTF-16 code units *)
RECURSIVE getLength(_)
getLength(str) == IF str = << >> THEN 0 ELSE Units(str[1]) + getLength(Tail(str))

(* the decimal numeral of n, as string concatenation produces it *)
Numeral(n) == ToString(n)

(* `\x1B[${n}${command}` *)
Csi(n, command) == <<"ESC", "[", Numeral(n), command>>

(* " ".repeat(n) *)
repeat(n) == [i \in 1..n |-> " "]

includes(str, c) == \E i \in 1..Len(str) : str[i] = c

RECURSIVE replaceCRLF(_)
replaceCRLF(str) ==
    IF str = << >> THEN << >>
    ELSE IF Len(str) >= 2 /\ str[1] = "CR" /\ str[2] = "LF"
         THEN <<"LF">> \o replaceCRLF(SubSeq(str, 3, Len(str)))
         ELSE <<str[1]>> \o replaceCRLF(Tail(str))

replaceCR(str) == [i \in 1..Len(str) |-> IF str[i] = "CR" THEN "LF" ELSE str[i]]

(* [...decode(value).replaceAll("\r\n", "\n").replaceAll("\r", "\n")] *)
decode(value) == replaceCR(replaceCRLF(value))

write(st, str) == [st EXCEPT !.response = @ \o str]

bell(st) == IF includes(st.response, "BEL") THEN st ELSE write(st, <<"BEL">>)

(* null![0] *)
Throw(st) == [st EXCEPT !.err = "TypeError"]

(* char === "\x7F" || char === "\x08" *)
backspace(st) ==
    LET backward == st.buffer.backward
    IN  IF Len(backward) = 0 THEN bell(st)
        ELSE IF ~Dot(backward[Len(backward)]) THEN Throw(st)
        ELSE LET length == getLength(<<backward[Len(backward)]>>)
             IN  write([st EXCEPT !.buffer.backward = SubSeq(backward, 1, Len(backward) - 1),
                                  !.shiftCount = @ + length],
                       Csi(length, "D"))

(* command === "C": Right *)
commandC(st) ==
    LET forward == st.buffer.forward
    IN  IF Len(forward) = 0 THEN bell(st)
        ELSE IF ~Dot(forward[1]) THEN Throw(st)
        ELSE write([st EXCEPT !.buffer.backward = Append(@, forward[1]),
                              !.buffer.forward = Tail(forward)],
                   Csi(getLength(<<forward[1]>>), "C"))

(* command === "D": Left *)
commandD(st) ==
    LET backward == st.buffer.backward
    IN  IF Len(backward) = 0 THEN bell(st)
        ELSE IF ~Dot(backward[Len(backward)]) THEN Throw(st)
        ELSE write([st EXCEPT !.buffer.forward = <<backward[Len(backward)]>> \o @,
                              !.buffer.backward = SubSeq(backward, 1, Len(backward) - 1)],
                   Csi(getLength(<<backward[Len(backward)]>>), "D"))

(* command === "H": Home *)
commandH(st) ==
    IF Len(st.buffer.backward) = 0 THEN bell(st)
    ELSE write([st EXCEPT !.buffer.forward = st.buffer.backward \o @,
                          !.buffer.backward = << >>],
               Csi(getLength(st.buffer.backward), "D"))

(* command === "F": End *)
commandF(st) ==
    IF Len(st.buffer.forward) = 0 THEN bell(st)
    ELSE write([st EXCEPT !.buffer.backward = @ \o st.buffer.forward,
                          !.buffer.forward = << >>],
               Csi(getLength(st.buffer.forward), "C"))

(* the dispatch on command; "A", "B" and every other command do nothing *)
dispatch(st, command) ==
    CASE command = "C" -> commandC(st)
      [] command = "D" -> commandD(st)
      [] command = "H" -> commandH(st)
      [] command = "F" -> commandF(st)
      [] OTHER -> st

(* sequenceChar === ";" || 48 <= sequenceCharCode && sequenceCharCode <= 57 *)
isArgument(c) == c \in {";", "0", "1", "2", "3", "4", "5", "6", "7", "8", "9"}

RECURSIVE read(_, _), sequence(_)

(* while (!command): st.char is the command on return, or Undefined after  *)
(* the break                                                                *)
sequence(st) ==
    LET r == read(st, FALSE)
    IN  IF r.err # "OK" THEN r
        ELSE IF r.char = Undefined THEN r
        ELSE IF isArgument(r.char) THEN sequence(r)
        ELSE r

(* const read = (push) => ...: st.char is the returned character *)
read(st, push) ==
    LET char == IF st.chars = << >> THEN Undefined ELSE Head(st.chars)
        s0 == [st EXCEPT !.chars = IF st.chars = << >> THEN << >> ELSE Tail(st.chars)]
        pushed == IF push THEN [s0 EXCEPT !.buffer.backward = Append(@, char)] ELSE s0
        out ==
            IF char \in {"DEL", "BS"} THEN backspace(s0)
            ELSE IF char = "ESC" THEN
                LET r == read(s0, FALSE)
                IN  IF r.err # "OK" THEN r
                    ELSE IF r.char = "[" THEN
                        LET q == sequence(r)
                        IN  IF q.err # "OK" THEN q ELSE dispatch(q, q.char)
                    ELSE r
            ELSE IF char = "LF" THEN write([s0 EXCEPT !.hasEnded = TRUE], <<"LF">>)
            ELSE IF char # Undefined /\ push THEN write(pushed, <<char>>)
            ELSE pushed
    IN  [out EXCEPT !.char = char]

(* a loop that does not leave on hasEnded *)
RECURSIVE loopToTheEnd(_)
loopToTheEnd(st) ==
    IF Len(st.chars) = 0 THEN st
    ELSE LET r == read(st, TRUE)
         IN  IF r.err # "OK" THEN r ELSE loopToTheEnd(r)

(* while (chars.length !== 0) { read(); if (this.hasEnded) break; } *)
RECURSIVE loop(_)
loop(st) ==
    IF Len(st.chars) = 0 THEN st
    ELSE LET r == read(st, TRUE)
         IN  IF r.err # "OK" \/ r.hasEnded THEN r ELSE loop(r)

Locals(inst, str) ==
    [chars |-> str, buffer |-> inst.buffer, hasEnded |-> inst.hasEnded,
     response |-> << >>, shiftCount |-> 0, err |-> "OK", char |-> Undefined]

(* return response + (forward.length + shiftCount > 0 ? ... : "") *)
return(st) ==
    LET n == getLength(st.buffer.forward) + st.shiftCount
    IN  IF st.err # "OK" THEN st
        ELSE IF n > 0
             THEN write(st, st.buffer.forward \o repeat(st.shiftCount) \o Csi(n, "D"))
             ELSE st

(* ReadInstance.process *)
process(inst, value) == return(loop(Locals(inst, decode(value))))

(* get line() *)
line(inst) == inst.buffer.backward \o inst.buffer.forward

(***************************************************************************)
(* SpecLine: one ReadInstance, fed chunk after chunk.  A chunk is up to    *)
(* MaxKeys key strokes; the keys are two letters, the line separator       *)
(* U+2028, the character U+1F600, the two erase characters, the four cursor keys, a cursor key    *)
(* with an argument, an ignored sequence, the two line endings, and the    *)
(* two truncated escape sequences.  The instance is fed again while its    *)
(* line is at most MaxLine characters long.                                *)
(***************************************************************************)
MaxKeys == 2
MaxLine == 1

Keys ==
    { <<"a">>, <<"b">>, <<"LS">>, <<"U+1F600">>,
      <<"DEL">>, <<"BS">>,
      <<"ESC", "[", "C">>, <<"ESC", "[", "D">>, <<"ESC", "[", "H">>, <<"ESC", "[", "F">>,
      <<"ESC", "[", "1", "D">>, <<"ESC", "[", "2", ";", "A">>,
      <<"LF">>, <<"CR">>,
      <<"ESC">>, <<"ESC", "[">> }

RECURSIVE Chunks(_)
Chunks(n) ==
    IF n = 0 THEN {<< >>}
    ELSE Chunks(n - 1) \cup {c \o k : c \in Chunks(n - 1), k \in Keys}

Values == Chunks(MaxKeys)

Instance == [buffer |-> buffer, hasEnded |-> hasEnded]

(* only an instance at rest takes a chunk *)
Feedable == pc \in {"constructed", "resumed"}

InitLine ==
    /\ buffer = NewInstance.buffer
    /\ hasEnded = NewInstance.hasEnded
    /\ chars = << >>
    /\ response = << >>
    /\ shiftCount = 0
    /\ pc = "constructed"
    /\ step = NoStep
    /\ ProcIdle
    /\ PermIdle

Process(value) ==
    /\ Feedable
    /\ LET st == process(Instance, value)
       IN  /\ buffer' = st.buffer
           /\ hasEnded' = st.hasEnded
           /\ chars' = st.chars
           /\ response' = st.response
           /\ shiftCount' = st.shiftCount
           /\ pc' = IF st.err = "OK" THEN "returned" ELSE "thrown"
    /\ step' = [value |-> value, before |-> Instance]
    /\ UNCHANGED procVars
    /\ UNCHANGED perm

(* the caller has the result and holds the instance for its next chunk *)
Resume ==
    /\ pc \in {"returned", "thrown"}
    /\ Len(line(Instance)) <= MaxLine
    /\ pc' = "resumed"
    /\ chars' = << >>
    /\ response' = << >>
    /\ shiftCount' = 0
    /\ step' = NoStep
    /\ UNCHANGED <<buffer, hasEnded>>
    /\ UNCHANGED procVars
    /\ UNCHANGED perm

NextLine ==
    \/ \E value \in (IF Feedable THEN Values ELSE {}) : Process(value)
    \/ Resume

SpecLine == InitLine /\ [][NextLine]_vars

(***************************************************************************)
(* The line discipline claims are stated on the state a process call       *)
(* leaves: step holds the chunk and the instance before the call.          *)
(***************************************************************************)
Called == pc \in {"returned", "thrown"}

Before == step.before

Count(str, c) == Cardinality({i \in 1..Len(str) : str[i] = c})

Front(str) == SubSeq(str, 1, Len(str) - 1)

(* the text holds ESC [ n D for some n *)
HasCursorLeft(str) ==
    \E i \in 1..Len(str) :
        /\ i + 3 <= Len(str)
        /\ str[i] = "ESC" /\ str[i + 1] = "[" /\ str[i + 3] = "D"

EraseKeys == {<<"DEL">>, <<"BS">>}

KeyRight == <<"ESC", "[", "C">>
KeyLeft == <<"ESC", "[", "D">>
KeyHome == <<"ESC", "[", "H">>
KeyEnd == <<"ESC", "[", "F">>

(* the character is matched by the pattern the code pops it with *)
Ordinary(c) == c \notin {"LS"}

(***************************************************************************)
(* C7.  A backspace (DEL or BS) on a non-empty backward returns, removes   *)
(* exactly the last character of backward, leaves forward alone, and its   *)
(* echo holds a cursor-left sequence and no bell; on an empty backward it  *)
(* leaves the buffer alone and the echo holds exactly one bell.  A         *)
(* character typed and erased in one chunk leaves the buffer as it was,    *)
(* and a backspace followed by a newline ends the line without its last    *)
(* character ("ab" DEL LF gives "a").                                      *)
(***************************************************************************)
C7_Backspace ==
    /\ (Called /\ step.value \in EraseKeys /\ Before.buffer.backward # << >>) =>
          /\ pc = "returned"
          /\ buffer.backward = Front(Before.buffer.backward)
          /\ buffer.forward = Before.buffer.forward
          /\ HasCursorLeft(response)
          /\ Count(response, "BEL") = 0
    /\ (Called /\ step.value \in EraseKeys /\ Before.buffer.backward = << >>) =>
          /\ pc = "returned"
          /\ buffer = Before.buffer
          /\ Count(response, "BEL") = 1
    /\ (Called /\ ~Before.hasEnded /\ \E c \in {"a", "b", "LS"} : \E k \in EraseKeys :
                                          step.value = <<c>> \o k) =>
          /\ pc = "returned"
          /\ buffer = Before.buffer
    /\ (Called /\ ~Before.hasEnded /\ Before.buffer.backward # << >>
             /\ \E k \in EraseKeys : step.value = k \o <<"LF">>) =>
          /\ pc = "returned"
          /\ hasEnded
          /\ line(Instance) = Front(Before.buffer.backward) \o Before.buffer.forward

(* the same statement for a backward that ends in a character other than   *)
(* a line separator: this much the code does                               *)
C7_BackspaceOverOrdinary ==
    /\ (Called /\ step.value \in EraseKeys /\ Before.buffer.backward # << >>
             /\ Ordinary(Before.buffer.backward[Len(Before.buffer.backward)])) =>
          /\ pc = "returned"
          /\ buffer.backward = Front(Before.buffer.backward)
          /\ buffer.forward = Before.buffer.forward
          /\ HasCursorLeft(response)
          /\ Count(response, "BEL") = 0
    /\ (Called /\ step.value \in EraseKeys /\ Before.buffer.backward = << >>) =>
          /\ pc = "returned"
          /\ buffer = Before.buffer
          /\ Count(response, "BEL") = 1
    /\ (Called /\ ~Before.hasEnded /\ \E c \in {"a", "b"} : \E k \in EraseKeys :
                                          step.value = <<c>> \o k) =>
          /\ pc = "returned"
          /\ buffer = Before.buffer

(***************************************************************************)
(* C8.  A cursor key (ESC [ C, D, H or F) returns and leaves the logical   *)
(* line backward+forward as it was; left on a non-empty backward moves     *)
(* its last character to the front of forward and echoes ESC [ 1 D; Home   *)
(* or left on an empty backward leaves the buffer alone and the echo       *)
(* holds a bell; Home twice is Home once, and the echo holds a bell.       *)
(***************************************************************************)
C8_CursorMotion ==
    /\ (Called /\ step.value \in {KeyRight, KeyLeft, KeyHome, KeyEnd}) =>
          /\ pc = "returned"
          /\ line(Instance) = line(Before)
    /\ (Called /\ step.value = KeyLeft /\ Before.buffer.backward # << >>) =>
          /\ pc = "returned"
          /\ buffer.backward = Front(Before.buffer.backward)
          /\ buffer.forward = <<Before.buffer.backward[Len(Before.buffer.backward)]>>
                                 \o Before.buffer.forward
          /\ SubSeq(response, 1, 4) = <<"ESC", "[", "1", "D">>
    /\ (Called /\ step.value \in {KeyHome, KeyLeft} /\ Before.buffer.backward = << >>) =>
          /\ pc = "returned"
          /\ buffer = Before.buffer
          /\ Count(response, "BEL") >= 1
    /\ (Called /\ ~Before.hasEnded /\ step.value = KeyHome \o KeyHome) =>
          /\ pc = "returned"
          /\ buffer.backward = << >>
          /\ buffer.forward = line(Before)
          /\ Count(response, "BEL") >= 1

(* the same statement when the character a left or right key moves is not  *)
(* a line separator, the cursor-left sequence of a left key counting the   *)
(* UTF-16 code units of the character moved: this much the code does       *)
C8_MotionOverOrdinary ==
    /\ (Called /\ step.value \in {KeyHome, KeyEnd}) =>
          /\ pc = "returned"
          /\ line(Instance) = line(Before)
    /\ (Called /\ step.value = KeyRight
             /\ (Before.buffer.forward # << >> => Ordinary(Before.buffer.forward[1]))) =>
          /\ pc = "returned"
          /\ line(Instance) = line(Before)
    /\ (Called /\ step.value = KeyLeft /\ Before.buffer.backward # << >>
             /\ Ordinary(Before.buffer.backward[Len(Before.buffer.backward)])) =>
          /\ pc = "returned"
          /\ buffer.backward = Front(Before.buffer.backward)
          /\ buffer.forward = <<Before.buffer.backward[Len(Before.buffer.backward)]>>
                                 \o Before.buffer.forward
          /\ SubSeq(response, 1, 4) = Csi(Units(Before.buffer.backward[Len(Before.buffer.backward)]), "D")
    /\ (Called /\ step.value \in {KeyHome, KeyLeft} /\ Before.buffer.backward = << >>) =>
          /\ pc = "returned"
          /\ buffer = Before.buffer
          /\ Count(response, "BEL") >= 1
    /\ (Called /\ ~Before.hasEnded /\ step.value = KeyHome \o KeyHome) =>
          /\ pc = "returned"
          /\ buffer.backward = << >>
          /\ buffer.forward = line(Before)
          /\ Count(response, "BEL") >= 1

(***************************************************************************)
(* C9.  hasEnded is false on a new instance.  A call on an instance that   *)
(* has not ended sets hasEnded only if the chunk holds a line ending (LF,  *)
(* CR or CR LF), and does set it if it returns and the chunk holds one.    *)
(* When it sets it the call returns, the echo holds the newline once, the  *)
(* buffer is what the characters before the first line ending alone lead   *)
(* to (what follows it in the chunk is not applied), and the line,         *)
(* backward+forward, holds no newline.                                     *)
(***************************************************************************)
IsLineEnding(c) == c \in {"LF", "CR"}

FirstLineEnding(value) ==
    IF \E i \in 1..Len(value) : IsLineEnding(value[i])
    THEN CHOOSE i \in 1..Len(value) :
             /\ IsLineEnding(value[i])
             /\ \A j \in 1..(i - 1) : ~IsLineEnding(value[j])
    ELSE 0

C9_LineTermination ==
    /\ pc = "constructed" => ~hasEnded
    /\ (Called /\ ~Before.hasEnded) =>
          LET k == FirstLineEnding(step.value)
          IN  /\ hasEnded => k # 0
              /\ (k # 0 /\ pc = "returned") => hasEnded
              /\ hasEnded =>
                    /\ pc = "returned"
                    /\ Count(response, "LF") = 1
                    /\ buffer = process(Before, SubSeq(step.value, 1, k - 1)).buffer
                    /\ line(Instance) = buffer.backward \o buffer.forward
                    /\ Count(line(Instance), "LF") = 0
                    /\ Count(line(Instance), "CR") = 0

(* "a" was typed; the chunk CR b ended the line as "a" and left the b *)
C9_Witness ==
    /\ pc = "returned"
    /\ step.value = <<"CR", "b">>
    /\ Before.buffer.backward = <<"a">>
    /\ ~Before.hasEnded
    /\ hasEnded
    /\ line(Instance) = <<"a">>
    /\ chars = <<"b">>

(***************************************************************************)
(* Process.rmdir(pathname)                                                 *)
(***************************************************************************)
RmdirOpAnyEntry(s, pathname) ==
    LET g == FsGet(s.fs, pathname, FALSE)
        d == FsDelete(s.fs, pathname, FALSE)
    IN  IF g.err # "OK" THEN Result(s, g.err, 0, << >>)
        ELSE IF d.err # "OK" THEN Result(s, d.err, 0, << >>)
        ELSE Result([s EXCEPT !.fs = d.tree], "OK", 0, << >>)

RmdirOp(s, pathname) ==
    LET g == FsGet(s.fs, pathname, FALSE)
        d == FsDelete(s.fs, pathname, FALSE)
    IN  IF g.err # "OK" THEN Result(s, g.err, 0, << >>)
        ELSE IF ~isDirectory(g.entry) THEN Result(s, "ENOTDIR", 0, << >>)
        ELSE IF Cardinality(FsList(s.fs, pathname)) > 0 THEN Result(s, "ENOTEMPTY", 0, << >>)
        ELSE IF d.err # "OK" THEN Result(s, d.err, 0, << >>)
        ELSE Result([s EXCEPT !.fs = d.tree], "OK", 0, << >>)

Rmdir(pathname) ==
    Apply(Call("rmdir", pathname, {}, 0, 0, << >>, FALSE), RmdirOp(State, pathname))

Unlink(pathname, flags) ==
    Apply(Call("unlink", pathname, flags, 0, 0, << >>, FALSE), UnlinkOp(State, pathname, flags))

(***************************************************************************)
(* SpecRm: rmdir and unlink on a tree that holds a directory /a with or    *)
(* without children (a file /a/b, a directory /a/a with or without a file  *)
(* /a/a/b), a regular file /b and a symbolic link /c to /a.                *)
(***************************************************************************)
RmFile == Entry("regular-file", 0, 0, 420, <<"A">>, << >>)
RmDirectory == Entry("directory", 0, 0, 493, << >>, << >>)

RmSeeds ==
    LET base == Plant(Plant(Plant(BaseTree, <<"a">>, RmDirectory), <<"b">>, RmFile),
                      <<"c">>, Entry("symlink", 0, 0, 511, << >>, <<"a">>))
        sub == Plant(base, <<"a", "a">>, RmDirectory)
    IN  { base,
          Plant(base, <<"a", "b">>, RmFile),
          sub,
          Plant(sub, <<"a", "a", "b">>, RmFile),
          Plant(Plant(sub, <<"a", "a", "b">>, RmFile), <<"a", "b">>, RmFile) }

RmPaths == {<<"a">>, <<"a", "a">>, <<"a", "a", "b">>, <<"a", "b">>, <<"b">>, <<"c">>, <<"d">>}

UnlinkFlags == {{}, {"REMOVE_DIR"}}

InitRm ==
    /\ \E tree \in RmSeeds : ProcInit(tree, NoFd)
    /\ LineIdle
    /\ PermIdle

NextRm ==
    \/ \E p \in RmPaths : Rmdir(p)
    \/ \E p \in RmPaths : \E fl \in UnlinkFlags : Unlink(p, fl)

SpecRm == InitRm /\ [][NextRm]_vars

(* the entries of the tree below the path, the path excluded *)
Below(tree, path) == {q \in DOMAIN tree : Len(q) > Len(path) /\ SubSeq(q, 1, Len(path)) = path}

HasChild(tree, path) == \E q \in Below(tree, path) : Len(q) = Len(path) + 1

(* the tree without the path and without what is below it *)
Without(tree, path) ==
    [q \in DOMAIN tree \ ({path} \cup Below(tree, path)) |-> tree[q]]

(***************************************************************************)
(* C11.  rmdir on an entry that is not a directory fails with ENOTDIR and  *)
(* on a directory with a child fails with ENOTEMPTY, the tree unchanged in *)
(* both cases; on an empty directory it succeeds, the path is no longer    *)
(* resolvable and every other entry is as before.                          *)
(***************************************************************************)
C11_Rmdir ==
    [][(last'.op = "rmdir" /\ last'.path \in DOMAIN fs) =>
          LET p == last'.path
          IN  /\ ~isDirectory(fs[p]) => (last'.err = "ENOTDIR" /\ fs' = fs)
              /\ (isDirectory(fs[p]) /\ HasChild(fs, p)) =>
                    (last'.err = "ENOTEMPTY" /\ fs' = fs)
              /\ (isDirectory(fs[p]) /\ ~HasChild(fs, p)) =>
                    /\ last'.err = "OK"
                    /\ FsGet(fs', p, FALSE).err = "ENOENT"
                    /\ FsGet(fs', p, TRUE).err = "ENOENT"
                    /\ fs' = Without(fs, p)]_vars

(* the empty directory /a/a has been removed from under /a *)
C11_Witness ==
    /\ last.op = "rmdir"
    /\ last.path = <<"a", "a">>
    /\ last.err = "OK"
    /\ <<"a", "a">> \notin DOMAIN fs
    /\ <<"a">> \in DOMAIN fs

(***************************************************************************)
(* C12.  unlink with REMOVE_DIR on a directory completes without error and *)
(* the directory and all its contents are gone; with REMOVE_DIR on another *)
(* entry it fails with ENOTDIR; without the flag it fails with EISDIR on a *)
(* directory and removes any other entry.  A failing call leaves the tree  *)
(* unchanged.                                                              *)
(***************************************************************************)
C12_Unlink ==
    [][(last'.op = "unlink" /\ last'.path \in DOMAIN fs) =>
          LET p == last'.path
              removeDir == "REMOVE_DIR" \in last'.flags
          IN  /\ (removeDir /\ isDirectory(fs[p])) =>
                    (last'.err = "OK" /\ fs' = Without(fs, p))
              /\ (removeDir /\ ~isDirectory(fs[p])) => last'.err = "ENOTDIR"
              /\ (~removeDir /\ isDirectory(fs[p])) => last'.err = "EISDIR"
              /\ (~removeDir /\ ~isDirectory(fs[p])) =>
                    (last'.err = "OK" /\ fs' = Without(fs, p))
              /\ last'.err # "OK" => fs' = fs]_vars

(* what the code does with REMOVE_DIR on a directory: the directory and    *)
(* its contents are removed and the call fails with ENOENT; the other      *)
(* three cases are as stated                                               *)
C12_UnlinkRemovesThenFails ==
    [][(last'.op = "unlink" /\ last'.path \in DOMAIN fs) =>
          LET p == last'.path
              removeDir == "REMOVE_DIR" \in last'.flags
          IN  /\ (removeDir /\ isDirectory(fs[p])) =>
                    (last'.err = "ENOENT" /\ fs' = Without(fs, p))
              /\ (removeDir /\ ~isDirectory(fs[p])) => (last'.err = "ENOTDIR" /\ fs' = fs)
              /\ (~removeDir /\ isDirectory(fs[p])) => (last'.err = "EISDIR" /\ fs' = fs)
              /\ (~removeDir /\ ~isDirectory(fs[p])) =>
                    (last'.err = "OK" /\ fs' = Without(fs, p))]_vars

(***************************************************************************)
(* Process._stat, stat, fstat and lstat.  The result keeps the permission  *)
(* bits of the entry and the file-type bits that _stat ors into them       *)
(* apart: mode is entry.mode, type the set of the StatMode bits.           *)
(***************************************************************************)
stat(entry) ==
    [mode |-> entry.mode,
     type |-> (IF isDirectory(entry) THEN {"IFDIR"} ELSE {})
                \cup (IF isRegularFile(entry) THEN {"IFREG"} ELSE {})
                \cup (IF isDeviceFile(entry) THEN {"IFCHR"} ELSE {})
                \cup (IF isSymbolicLink(entry) THEN {"IFLNK"} ELSE {}),
     owner |-> entry.owner,
     group |-> entry.group,
     size |-> 0]

NoStat == stat(NoEntry)

(* a variant of fstat that resolves the links *)
FstatOpFollowing(s, h) ==
    LET f == requireFileDescriptorData(s, h)
        g == FsGet(s.fs, s.fd[h].pathname, TRUE)
    IN  IF f # "OK" THEN Result(s, f, 0, NoStat)
        ELSE IF g.err # "OK" THEN Result(s, g.err, 0, NoStat)
        ELSE Result(s, "OK", 0, stat(g.entry))

(* a variant of stat that does not resolve the links *)
StatOpNotFollowing(s, pathname) ==
    LET g == FsGet(s.fs, pathname, FALSE)
    IN  IF g.err # "OK" THEN Result(s, g.err, 0, NoStat)
        ELSE Result(s, "OK", 0, stat(g.entry))

StatOp(s, pathname) ==
    LET g == FsGet(s.fs, pathname, TRUE)
    IN  IF g.err # "OK" THEN Result(s, g.err, 0, NoStat)
        ELSE Result(s, "OK", 0, stat(g.entry))

FstatOp(s, h) ==
    LET f == requireFileDescriptorData(s, h)
        g == FsGet(s.fs, s.fd[h].pathname, FALSE)
    IN  IF f # "OK" THEN Result(s, f, 0, NoStat)
        ELSE IF g.err # "OK" THEN Result(s, g.err, 0, NoStat)
        ELSE Result(s, "OK", 0, stat(g.entry))

LstatOp(s, pathname) ==
    LET g == FsGet(s.fs, pathname, FALSE)
    IN  IF g.err # "OK" THEN Result(s, g.err, 0, NoStat)
        ELSE Result(s, "OK", 0, stat(g.entry))

Stat(pathname) ==
    Apply(Call("stat", pathname, {}, 0, 0, << >>, FALSE), StatOp(State, pathname))

Fstat(h) == Apply(Call("fstat", << >>, {}, h, 0, << >>, FALSE), FstatOp(State, h))

Lstat(pathname) ==
    Apply(Call("lstat", pathname, {}, 0, 0, << >>, FALSE), LstatOp(State, pathname))

(***************************************************************************)
(* SpecStat: a regular file /a/b, the links /l to /a/b, /m to /l and /d to *)
(* the directory /a, and a descriptor 0 on /a/b.  The file is 0o644 of     *)
(* uid 0, or 0o600 of another owner and group, so that uid 0 is denied;    *)
(* the links are 0o777 of uid 0, as symlink makes them.                    *)
(***************************************************************************)
NewSymbolicLink(target) == Entry("symlink", 0, 0, 511, << >>, target)

LinkSeeds ==
    {Plant(Plant(Plant(tree, <<"l">>, NewSymbolicLink(<<"a", "b">>)),
                 <<"m">>, NewSymbolicLink(<<"l">>)),
           <<"d">>, NewSymbolicLink(<<"a">>)) : tree \in FileSeeds}

LinkPaths == {<<"a", "b">>, <<"l">>, <<"m">>, <<"d">>}

InitStat ==
    /\ \E tree \in LinkSeeds : ProcInit(tree, OneFd)
    /\ LineIdle
    /\ PermIdle

NextStat ==
    \/ \E p \in LinkPaths : \E fl \in FlagSets : Open(p, fl)
    \/ \E p \in LinkPaths \cup {<<"a">>} : Stat(p)
    \/ \E p \in LinkPaths \cup {<<"a">>} : Lstat(p)
    \/ \E h \in Handles : Fstat(h)
    \/ \E h \in Handles : Write(h, <<"X">>, Infinity)

SpecStat == InitStat /\ [][NextStat]_vars

(* the path a chain of symbolic links ends at *)
RECURSIVE FinalTarget(_, _)
FinalTarget(tree, path) ==
    IF path \in DOMAIN tree /\ tree[path].type = "symlink"
    THEN FinalTarget(tree, tree[path].target)
    ELSE path

IsLink(tree, path) == path \in DOMAIN tree /\ tree[path].type = "symlink"

Describes(st, entry) ==
    /\ st.mode = entry.mode
    /\ st.owner = entry.owner
    /\ st.group = entry.group

(***************************************************************************)
(* C13.  When the path given to stat, or the pathname stored in the        *)
(* descriptor given to fstat, is a symbolic link whose chain ends at an    *)
(* entry, the call returns the mode, owner and group of that entry; lstat  *)
(* on a symbolic link returns those of the link, with the link type bit.   *)
(***************************************************************************)
C13_StatFollowsLinks ==
    /\ (last.op = "stat" /\ IsLink(fs, last.path)
          /\ FinalTarget(fs, last.path) \in DOMAIN fs) =>
             /\ last.err = "OK"
             /\ Describes(last.data, fs[FinalTarget(fs, last.path)])
    /\ (last.op = "fstat" /\ last.h \in DOMAIN fd /\ IsLink(fs, fd[last.h].pathname)
          /\ FinalTarget(fs, fd[last.h].pathname) \in DOMAIN fs) =>
             /\ last.err = "OK"
             /\ Describes(last.data, fs[FinalTarget(fs, fd[last.h].pathname)])
    /\ (last.op = "lstat" /\ IsLink(fs, last.path)) =>
             /\ last.err = "OK"
             /\ Describes(last.data, fs[last.path])
             /\ "IFLNK" \in last.data.type

(* what the code does: stat resolves the links, fstat and lstat do not *)
C13_OnlyStatFollowsLinks ==
    /\ (last.op = "stat" /\ IsLink(fs, last.path)
          /\ FinalTarget(fs, last.path) \in DOMAIN fs) =>
             /\ last.err = "OK"
             /\ Describes(last.data, fs[FinalTarget(fs, last.path)])
             /\ "IFLNK" \notin last.data.type
    /\ (last.op = "fstat" /\ last.h \in DOMAIN fd /\ IsLink(fs, fd[last.h].pathname)) =>
             /\ last.err = "OK"
             /\ Describes(last.data, fs[fd[last.h].pathname])
             /\ "IFLNK" \in last.data.type
    /\ (last.op = "lstat" /\ IsLink(fs, last.path)) =>
             /\ last.err = "OK"
             /\ Describes(last.data, fs[last.path])
             /\ "IFLNK" \in last.data.type

(***************************************************************************)
(* C17.  An open that returns a descriptor with READ (with WRITE) does so  *)
(* only if the mode of the entry that read and write through the           *)
(* descriptor act on, the entry the links of its pathname end at, grants   *)
(* read (write) to the uid and gid of the process.                         *)
(***************************************************************************)
C17_OpenGateCoversTarget ==
    [][(last'.op = "open" /\ last'.err = "OK"
          /\ FinalTarget(fs', last'.path) \in DOMAIN fs') =>
          LET entry == fs'[FinalTarget(fs', last'.path)]
          IN  /\ "READ" \in last'.flags => Grants(entry, 4, uid, gid)
              /\ "WRITE" \in last'.flags => Grants(entry, 2, uid, gid)]_vars

(* what the code does: the gate is on the entry the pathname names, the    *)
(* link itself when it is one                                              *)
C17_OpenGateCoversNamedEntry ==
    [][(last'.op = "open" /\ last'.err = "OK" /\ last'.path \in DOMAIN fs') =>
          LET entry == fs'[last'.path]
          IN  /\ "READ" \in last'.flags => Grants(entry, 4, uid, gid)
              /\ "WRITE" \in last'.flags => Grants(entry, 2, uid, gid)]_vars

(* uid 0 has written through a descriptor on the link /l into /a/b, a file *)
(* of another owner whose mode 0o600 gives uid 0 nothing                   *)
C17_WroteThroughLink ==
    /\ last.op = "write"
    /\ last.err = "OK"
    /\ last.h \in DOMAIN fd
    /\ fd[last.h].pathname = <<"l">>
    /\ fs[<<"a", "b">>].owner = 5
    /\ fs[<<"a", "b">>].mode = 384
    /\ uid = 0
    /\ Len(fs[<<"a", "b">>].data) > 0

(***************************************************************************)
(* SpecReplace: descriptor 0 is open on the regular file /a/b; the file is *)
(* unlinked, created anew by an open with WRITE, read and written.         *)
(***************************************************************************)
InitReplace ==
    /\ ProcInit(Plant(Plant(BaseTree, <<"a">>, Entry("directory", 0, 0, 493, << >>, << >>)),
                      <<"a", "b">>, Entry("regular-file", 0, 0, 420, <<"A", "B">>, << >>)),
                OneFd)
    /\ LineIdle
    /\ PermIdle

NextReplace ==
    \/ Unlink(<<"a", "b">>, {})
    \/ \E fl \in {{"WRITE"}, {"READ", "WRITE"}} : Open(<<"a", "b">>, fl)
    \/ \E h \in 0..MaxFd : \E o \in 0..1 : Seek(h, o)
    \/ \E h \in 0..MaxFd : \E c \in Counts : Read(h, c)
    \/ \E h \in 0..MaxFd : Write(h, <<"X">>, Infinity)

SpecReplace == InitReplace /\ [][NextReplace]_vars

(* the bytes of a text from position o (counted from 0), at most n of them *)
Part(data, o, n) ==
    [i \in 1..(IF Len(data) - o < 0 THEN 0
               ELSE IF Len(data) - o < n THEN Len(data) - o ELSE n) |-> data[o + i]]

(***************************************************************************)
(* C18.  A read or a write through an open descriptor whose flags allow it *)
(* acts on the entry that is at the descriptor's pathname when the call is *)
(* made, at the descriptor's offset: a read returns the bytes of that      *)
(* entry from the offset on and advances the offset by their number, a     *)
(* write inserts its bytes into that entry at the offset.  When nothing is *)
(* at the pathname the call fails with ENOENT and changes neither the      *)
(* descriptor table nor the tree.  So after the file has been removed and  *)
(* another created at the path, the descriptor gives the new file's data.  *)
(***************************************************************************)
C18_PathBasedDescriptors ==
    [][(last'.op \in {"read", "write"} /\ last'.h \in DOMAIN fd
          /\ (IF last'.op = "read" THEN "READ" ELSE "WRITE") \in fd[last'.h].flags) =>
          LET h == last'.h
              p == fd[h].pathname
              o == fd[h].offset
          IN  /\ p \notin DOMAIN fs =>
                    (last'.err = "ENOENT" /\ fd' = fd /\ fs' = fs)
              /\ (p \in DOMAIN fs /\ fs[p].type = "regular-file" /\ last'.op = "read") =>
                    /\ last'.err = "OK"
                    /\ last'.data = Part(fs[p].data, o, last'.n)
                    /\ fd'[h].offset = o + Len(last'.data)
                    /\ fd'[h].pathname = p
                    /\ fs' = fs
              /\ (p \in DOMAIN fs /\ fs[p].type = "regular-file" /\ last'.op = "write") =>
                    /\ last'.err = "OK"
                    /\ fs'[p].data = Part(fs[p].data, 0, o) \o last'.buf
                                       \o Part(fs[p].data, o, Len(fs[p].data))
                    /\ fd'[h].offset = o + Len(last'.buf)
                    /\ fd'[h].pathname = p]_vars

(* /a/b holds "XX", which only a file created after the unlink can hold,   *)
(* and descriptor 0, open since before, has read its second byte           *)
C18_Witness ==
    /\ last.op = "read"
    /\ last.h = 0
    /\ last.err = "OK"
    /\ last.data = <<"X">>
    /\ <<"a", "b">> \in DOMAIN fs
    /\ fs[<<"a", "b">>].data = <<"X", "X">>
    /\ fd[0].offset = 2

(***************************************************************************)
(* Process.setuid(uid), Process.setgid(gid)                                *)
(***************************************************************************)
Setuid(u) ==
    /\ uid' = u
    /\ last' = Last(Call("setuid", << >>, {}, 0, u, << >>, FALSE),
                    [err |-> "OK", ret |-> 0, data |-> << >>])
    /\ UNCHANGED <<fs, fd, gid, closed, perm>>
    /\ UNCHANGED execVars
    /\ UNCHANGED lineVars

Setgid(g) ==
    /\ gid' = g
    /\ last' = Last(Call("setgid", << >>, {}, 0, g, << >>, FALSE),
                    [err |-> "OK", ret |-> 0, data |-> << >>])
    /\ UNCHANGED <<fs, fd, uid, closed, perm>>
    /\ UNCHANGED execVars
    /\ UNCHANGED lineVars

(***************************************************************************)
(* Process.spawn(callback)                                                 *)
(*                                                                         *)
(* new Process(emulator, init) keeps init.id, init.name and init.env,      *)
(* takes init.fd or an empty table, and sets uid and gid to 0 whatever     *)
(* init.uid and init.gid are.  The children list holds the child object  *)
(* itself, so what the opens do to its table shows through the list.       *)
(***************************************************************************)
ProcessInit(id, nm, e, u, g) == [id |-> id, name |-> nm, env |-> e, uid |-> u, gid |-> g]

NewProcess(init) ==
    [id |-> init.id, name |-> init.name, env |-> init.env,
     uid |-> 0, gid |-> 0, fd |-> NoFd]

ProcessState(child, tree) ==
    [fs |-> tree, fd |-> child.fd, uid |-> child.uid, gid |-> child.gid,
     id |-> child.id]

Tty == <<"dev", "tty1">>

(* one process.open("/dev/tty1", flags) of spawn; a throw ends the setup   *)
SpawnOpen(r, flags) ==
    IF r.err # "OK" THEN r
    ELSE LET o == OpenOp(ProcessState(r.process, r.fs), Tty, flags) IN
         [err |-> o.err, process |-> [r.process EXCEPT !.fd = o.fd], fs |-> o.fs]

(* the three opens of spawn, in their order                                *)
SpawnFlags == <<{"READ"}, {"WRITE"}, {"WRITE"}>>

RECURSIVE SpawnOpens(_, _)
SpawnOpens(r, flagsList) ==
    IF flagsList = << >> THEN r
    ELSE SpawnOpens(SpawnOpen(r, Head(flagsList)), Tail(flagsList))

(* spawn at its await: "PENDING" says that the body has been started       *)
SpawnAwait(r, list, pid) ==
    [err |-> IF r.err = "OK" THEN "PENDING" ELSE r.err,
     fs |-> r.fs,
     newPid |-> pid + 1,
     children |-> Append(list, r.process)]

SpawnOp(tree, list, pid, e, u, g) ==
    SpawnAwait(SpawnOpens([err |-> "OK", fs |-> tree,
                           process |-> NewProcess(ProcessInit(pid, "New Process", e, u, g))],
                          SpawnFlags),
               list, pid)

(* the continuation of spawn when the body has completed                   *)
SpawnResume(list, pid) ==
    SelectSeq(list, LAMBDA p : p.id # pid)

MaxPid == 3

Spawn ==
    /\ newPid <= MaxPid
    /\ LET r == SpawnOp(fs, children, newPid, env, uid, gid) IN
       /\ fs' = r.fs
       /\ children' = r.children
       /\ newPid' = r.newPid
       /\ last' = Last(Call("spawn", << >>, {}, 0, newPid, << >>, FALSE),
                       [err |-> r.err, ret |-> 0, data |-> << >>])
    /\ UNCHANGED <<fd, uid, gid, closed, perm, processName, args, env, invoked>>
    /\ UNCHANGED lineVars

(***************************************************************************)
(* SpecSpawn: setuid, setgid and spawn.  The tree holds the terminal       *)
(* device /dev/tty1, which uid 0 may or may not open, and the descriptor   *)
(* directories /proc/<pid>/fd of any of the processes to come.             *)
(***************************************************************************)
Ids == {0, 5}

TtySeeds ==
    {Plant(Plant(BaseTree, <<"dev">>, NewDirectory(493)),
           Tty, Entry("device", t[1], t[2], t[3], << >>, << >>)) :
        t \in {<<0, 0, 438>>, <<5, 5, 384>>}}

WithFdDirectories(tree, pids) ==
    [q \in DOMAIN tree \cup UNION {{<<"proc", toString(k)>>, FdDirectoryOf(k)} : k \in pids} |->
        IF q \in DOMAIN tree THEN tree[q] ELSE NewDirectory(493)]

SpawnSeeds ==
    {WithFdDirectories(t, pids) : t \in TtySeeds, pids \in SUBSET (2..MaxPid)}

InitSpawn ==
    /\ \E tree \in SpawnSeeds : ProcInit(tree, NoFd)
    /\ LineIdle
    /\ PermIdle

NextSpawn ==
    \/ \E u \in Ids : Setuid(u)
    \/ \E g \in Ids : Setgid(g)
    \/ Spawn

SpecSpawn == InitSpawn /\ [][NextSpawn]_vars

(* the step is a spawn call, and Child the child it constructed          *)
Spawned == Len(children') = Len(children) + 1

Child == children'[Len(children')]

(* C14: the child a spawn constructs has the uid and the gid its parent    *)
(* has at the time of the spawn.                                           *)
C14_ChildInheritsIds ==
    [][Spawned => Child.uid = uid /\ Child.gid = gid]_vars

(* what the code does: the child's uid and gid are 0                       *)
C14_ChildIsRoot ==
    [][Spawned => Child.uid = 0 /\ Child.gid = 0]_vars

(* C15: the three opens of spawn all succeed, and the table of the child   *)
(* then holds exactly three descriptors on /dev/tty1: one for reading and  *)
(* two for writing.                                                        *)
C15_ThreeDescriptors ==
    [][Spawned =>
          /\ last'.err = "PENDING"
          /\ Cardinality(DOMAIN Child.fd) = 3
          /\ \A k \in DOMAIN Child.fd : Child.fd[k].pathname = Tty
          /\ Cardinality({k \in DOMAIN Child.fd : Child.fd[k].flags = {"READ"}}) = 1
          /\ Cardinality({k \in DOMAIN Child.fd : Child.fd[k].flags = {"WRITE"}}) = 2]_vars

(* what the code does: one of the opens throws, the table of the child     *)
(* holds at most two descriptors, and no body is ever started              *)
C15_SetupFails ==
    [][Spawned =>
          /\ last'.err \in {"EACCES", "ENOENT", "EEXIST"}
          /\ DOMAIN Child.fd \subseteq {NegInfinity, NaN}
          /\ (last'.err = "EEXIST" =>
                /\ DOMAIN Child.fd = {NegInfinity, NaN}
                /\ Child.fd[NegInfinity].flags = {"READ"}
                /\ Child.fd[NaN].flags = {"WRITE"})]_vars

(* C16: when a spawn call has finished, the child it constructed is not    *)
(* in the children list of its parent.                                     *)
C16_ChildRemoved ==
    [][Spawned /\ last'.err # "PENDING" =>
          \A i \in DOMAIN children' : children'[i].id # newPid]_vars

(* what the code does: a spawn whose setup throws leaves the child in the  *)
(* list, and every child of an earlier spawn with it                       *)
C16_ChildLeftRegistered ==
    [][Spawned =>
          /\ last'.err # "PENDING"
          /\ Child.id = newPid
          /\ \A i \in DOMAIN children : children'[i] = children[i]]_vars

(* a spawn whose first two opens went through and whose third one threw    *)
C15_ThirdOpenFailed == last.op = "spawn" /\ last.err = "EEXIST"

(***************************************************************************)
(* Process.exec(pathname, args, env)                                       *)
(*                                                                         *)
(* An environment is a function from its keys to their values; a key given *)
(* with the value undefined is in the domain with the value Undefined.     *)
(***************************************************************************)
(* Object.fromEntries(Object.entries(env)) without the filter              *)
allEntries(e) == e

(* Object.fromEntries(Object.entries(env).filter(([k, v]) => v !== undefined)) *)
definedEntries(e) == [k \in {x \in DOMAIN e : e[x] # Undefined} |-> e[k]]

(* Object.assign(target, source) *)
assign(target, source) ==
    [k \in DOMAIN target \cup DOMAIN source |->
        IF k \in DOMAIN source THEN source[k] ELSE target[k]]

(* p: the name, args, env of the process and the count of entrypoint calls *)
ExecOp(tree, p, pathname, a, e) ==
    LET g == FsGet(tree, pathname, TRUE) IN
    IF g.err # "OK" THEN [p EXCEPT !.err = g.err]
    ELSE LET q == [p EXCEPT !.name = pathname, !.args = a,
                            !.env = assign(p.env, definedEntries(e))]
         IN  IF isExecutableFile(g.entry) THEN [q EXCEPT !.invoked = p.invoked + 1]
             ELSE IF isRegularFile(g.entry) THEN q
             ELSE [q EXCEPT !.err = "ELIBBAD"]

MaxExec == 2

Exec(pathname, a, e) ==
    /\ invoked < MaxExec
    /\ LET r == ExecOp(fs, [name |-> processName, args |-> args, env |-> env,
                            invoked |-> invoked, err |-> "OK"], pathname, a, e)
       IN  /\ processName' = r.name
           /\ args' = r.args
           /\ env' = r.env
           /\ invoked' = r.invoked
           /\ last' = [op |-> "exec", path |-> pathname, flags |-> {}, h |-> 0, n |-> 0,
                       buf |-> a, rec |-> FALSE, err |-> r.err, ret |-> 0,
                       data |-> << >>, given |-> e]
    /\ UNCHANGED <<fs, fd, uid, gid, closed, perm, children, newPid>>
    /\ UNCHANGED lineVars

(***************************************************************************)
(* SpecExec: exec on a tree that holds an executable file /bin/sh, a       *)
(* regular file /a/b, the directory /a, the device /dev/tty1, a link to    *)
(* each of them and a link to nothing.                                     *)
(***************************************************************************)
ExecTree ==
    LET t1 == Plant(BaseTree, <<"a">>, NewDirectory(493))
        t2 == Plant(t1, <<"a", "b">>, Entry("regular-file", 0, 0, 420, <<"A">>, << >>))
        t3 == Plant(t2, <<"bin">>, NewDirectory(493))
        t4 == Plant(t3, <<"bin", "sh">>, Entry("executable-file", 0, 0, 493, << >>, << >>))
        t5 == Plant(t4, <<"dev">>, NewDirectory(493))
        t6 == Plant(t5, Tty, Entry("device", 0, 0, 438, << >>, << >>))
        t7 == Plant(t6, <<"sh">>, NewSymbolicLink(<<"bin", "sh">>))
        t8 == Plant(t7, <<"f">>, NewSymbolicLink(<<"a", "b">>))
        t9 == Plant(t8, <<"d">>, NewSymbolicLink(<<"a">>))
        t10 == Plant(t9, <<"t">>, NewSymbolicLink(Tty))
    IN  Plant(t10, <<"n">>, NewSymbolicLink(<<"z">>))

ExecPaths ==
    {<<"bin", "sh">>, <<"a", "b">>, <<"a">>, Tty, <<"sh">>, <<"f">>, <<"d">>, <<"t">>,
     <<"n">>, <<"z">>}

ExecArgs == {<< >>, <<"-c">>}

ExecEnvs == UNION {[S -> {"/x", Undefined}] : S \in SUBSET {"HOME", "TERM"}}

InitExec ==
    /\ ProcInit(ExecTree, NoFd)
    /\ LineIdle
    /\ PermIdle

NextExec == \E pathname \in ExecPaths, a \in ExecArgs, e \in ExecEnvs : Exec(pathname, a, e)

SpecExec == InitExec /\ [][NextExec]_vars

(* the entry an exec of the path is about, when the path leads to one     *)
Resolves(tree, path) == FinalTarget(tree, path) \in DOMAIN tree

Kind(tree, path) == tree[FinalTarget(tree, path)].type

(* C19: an exec whose path leads to an entry sets the name to the path,    *)
(* the args to those given, and the env to the old env in which exactly    *)
(* the keys given with a defined value have the value given; then an       *)
(* executable target has its entrypoint invoked exactly once, a regular    *)
(* file invokes nothing and succeeds, and any other kind of target fails   *)
(* with ELIBBAD and invokes nothing.                                       *)
C19_ExecDispatch ==
    [][(last'.op = "exec" /\ Resolves(fs, last'.path)) =>
          /\ processName' = last'.path
          /\ args' = last'.buf
          /\ DOMAIN env \subseteq DOMAIN env'
          /\ \A k \in DOMAIN env' :
                IF k \in DOMAIN last'.given /\ last'.given[k] # Undefined
                THEN env'[k] = last'.given[k]
                ELSE k \in DOMAIN env /\ env'[k] = env[k]
          /\ \A k \in DOMAIN last'.given :
                last'.given[k] # Undefined => k \in DOMAIN env'
          /\ (Kind(fs, last'.path) = "executable-file" =>
                last'.err = "OK" /\ invoked' = invoked + 1)
          /\ (Kind(fs, last'.path) = "regular-file" =>
                last'.err = "OK" /\ invoked' = invoked)
          /\ (Kind(fs, last'.path) \notin {"executable-file", "regular-file"} =>
                last'.err = "ELIBBAD" /\ invoked' = invoked)]_vars

(* an exec whose path leads to nothing fails and changes nothing           *)
C19_UnresolvedChangesNothing ==
    [][(last'.op = "exec" /\ ~Resolves(fs, last'.path)) =>
          /\ last'.err = "ENOENT"
          /\ UNCHANGED <<processName, args, env, invoked>>]_vars

(* an exec through the link /sh of the executable, with HOME given defined *)
(* and TERM given undefined, has run and invoked the entrypoint; an exec   *)
(* of a link to the device has failed after it                             *)
C19_Witness ==
    /\ last.op = "exec"
    /\ last.path = <<"t">>
    /\ last.err = "ELIBBAD"
    /\ invoked = 1
    /\ env["HOME"] = "/x"
    /\ "TERM" \notin DOMAIN env
    /\ last.given = [k \in {"HOME", "TERM"} |-> Undefined]

(***************************************************************************)
(* The terminal the echo is written to: a printable character (a blank     *)
(* too) advances the cursor by one column, ESC [ n D moves it n columns to *)
(* the left and ESC [ n C n columns to the right, the bell leaves it.      *)
(***************************************************************************)
Columns == 0..(4 * (MaxLine + MaxKeys + 1))

Amount(numeral) == CHOOSE n \in Columns : Numeral(n) = numeral

RECURSIVE Cursor(_, _)
Cursor(str, column) ==
    IF str = << >> THEN column
    ELSE IF str[1] = "ESC"
    THEN Cursor(SubSeq(str, 5, Len(str)),
                CASE str[4] = "D" -> column - Amount(str[3])
                  [] str[4] = "C" -> column + Amount(str[3])
                  [] OTHER -> column)
    ELSE IF str[1] = "BEL" THEN Cursor(Tail(str), column)
    ELSE Cursor(Tail(str), column + 1)

(* what the terminal receives of a call: the echo it returns, and nothing  *)
(* of a call that throws                                                   *)
Echo == IF pc = "returned" THEN response ELSE << >>

NoNewline == Count(response, "LF") = 0

(* C20: from a terminal whose cursor column is the length of backward, the *)
(* echo of a call that consumed no newline leaves the cursor column equal  *)
(* to the length of backward after the call.                               *)
C20_EchoTracksCursor ==
    (Called /\ NoNewline) =>
        Cursor(Echo, Len(Before.buffer.backward)) = Len(buffer.backward)

(* every character of the text is one UTF-16 code unit                    *)
Basic(str) == \A i \in 1..Len(str) : Units(str[i]) = 1

(* what the code does: the cursor is kept by the calls that return, on a   *)
(* line and a chunk of characters of one UTF-16 code unit each             *)
C20_ReturnedBasicEchoTracksCursor ==
    (pc = "returned" /\ NoNewline /\ Basic(line(Before)) /\ Basic(step.value)) =>
        Cursor(response, Len(Before.buffer.backward)) = Len(buffer.backward)

(* a call that returns: U+1F600 typed, then erased in the next call, whose *)
(* echo moves the cursor two columns to the left of the one it advanced    *)
C20_ErasedTwoUnits ==
    /\ pc = "returned"
    /\ step.value = <<"DEL">>
    /\ Before.buffer.backward = <<"U+1F600">>
    /\ buffer.backward = << >>
    /\ Cursor(response, 1) = -1

(***************************************************************************)
(* C23.  An open that fails, with whatever error, leaves the descriptor    *)
(* table of the process as it was before the call.                         *)
(***************************************************************************)
C23_FailedOpenKeepsTable ==
    [][(last'.op = "open" /\ last'.err # "OK") => fd' = fd]_vars

(* what the code does: an open that fails before it allocates a handle     *)
(* (in the lookup, on a directory, on a denied permission) leaves the      *)
(* table alone; one that fails in the create of its link has already       *)
(* written the table, and the link directory holds the name it collided on *)
C23_FailedBeforeAllocationKeepsTable ==
    [][(last'.op = "open" /\ last'.err # "OK") =>
          \/ fd' = fd
          \/ /\ last'.err = "EEXIST"
             /\ \E h \in DOMAIN fd' :
                   /\ join(FdDirectory, toString(h)) \in DOMAIN fs
                   /\ fd'[h] = FdData(last'.path, last'.flags, 0)
                   /\ \A k \in DOMAIN fd' \ {h} : k \in DOMAIN fd /\ fd'[k] = fd[k]]_vars

(* an open has failed with EEXIST and left its descriptor in the table     *)
C23_TableWrittenByFailedOpen ==
    /\ last.op = "open"
    /\ last.err = "EEXIST"
    /\ NaN \in DOMAIN fd
    /\ fd[NaN] = FdData(last.path, last.flags, 0)

(***************************************************************************)
(* C24.  Once hasEnded is true it stays true, and a further call of        *)
(* process on the instance, whatever its input, leaves backward and        *)
(* forward as they were.                                                   *)
(***************************************************************************)
C24_CompletedLineIsStable ==
    (Called /\ Before.hasEnded) =>
        /\ hasEnded
        /\ buffer = Before.buffer

(* what the code does: hasEnded stays true, and a further call runs one    *)
(* read before it leaves the loop, which takes one key of the chunk: the   *)
(* line grows by at most one character, and the characters of the line     *)
(* stay those it had unless the key is an erase key or inserts one         *)
C24_EndedStaysEnded ==
    (Called /\ Before.hasEnded) =>
        /\ hasEnded
        /\ Len(line(Instance)) <= Len(line(Before)) + 1
        /\ Len(line(Instance)) >= Len(line(Before)) - 1
        /\ step.value = << >> => buffer = Before.buffer

(* a character fed to an instance that has ended is in its line            *)
C24_EndedLineHasGrown ==
    /\ pc = "returned"
    /\ Before.hasEnded
    /\ step.value = <<"a">>
    /\ Before.buffer.backward = << >>
    /\ buffer.backward = <<"a">>

(***************************************************************************)
(* io.read(fd, flag) of the capability exec hands to an entrypoint.        *)
(*                                                                         *)
(* A call constructs one ReadInstance and then loops: it awaits            *)
(* p.read(fd), and in line mode feeds the chunk to the instance, writes    *)
(* the echo to descriptor 1 when ECHO is set, and returns the line when    *)
(* the instance has ended.  The call is at rest only in its await, so one  *)
(* action starts the call and one runs a turn of the loop, from the chunk  *)
(* the device delivers to the next await, the return or the throw.         *)
(*                                                                         *)
(* last holds the call: n counts the calls, ret the chunks received, data  *)
(* is the value returned, and fed what the chunks of this call alone make  *)
(* of a new instance.                                                      *)
(***************************************************************************)
StdReadFlags == SUBSET {"ECHO", "READ_LINE"}

IoCall(n, h, flag, chunks, err, data, fed) ==
    [op |-> "io.read", path |-> << >>, flags |-> flag, h |-> h, n |-> n, buf |-> << >>,
     rec |-> FALSE, err |-> err, ret |-> chunks, data |-> data, fed |-> fed]

MaxReads == 2
MaxChunks == 2

IoRead(h, flag) ==
    /\ pc \in {"idle", "io.returned", "io.thrown"}
    /\ (last.op = "io.read" => last.n < MaxReads)
    /\ buffer' = NewInstance.buffer
    /\ hasEnded' = NewInstance.hasEnded
    /\ chars' = << >>
    /\ response' = << >>
    /\ shiftCount' = 0
    /\ step' = NoStep
    /\ pc' = "awaiting"
    /\ last' = IoCall((IF last.op = "io.read" THEN last.n ELSE 0) + 1, h, flag, 0,
                      "PENDING", << >>, NewInstance)
    /\ UNCHANGED <<fs, fd, uid, gid, closed, perm>>
    /\ UNCHANGED execVars

(* the device holds the chunk it delivers to the next read                 *)
Delivering(s, value) == [s EXCEPT !.fs[Tty].data = value]

(* this.write(val): p.write(1, val)                                        *)
IoWrite(s, val) == WriteOp(s, 1, val, Infinity).err

(* the turn of the loop in line mode, the instance st after process        *)
LineTurn(s, flag, st) ==
    IF st.err # "OK" THEN [err |-> st.err, returns |-> FALSE, data |-> << >>]
    ELSE IF "ECHO" \in flag /\ IoWrite(s, st.response) # "OK"
    THEN [err |-> IoWrite(s, st.response), returns |-> FALSE, data |-> << >>]
    ELSE IF ~st.hasEnded THEN [err |-> "PENDING", returns |-> FALSE, data |-> << >>]
    ELSE IF "ECHO" \notin flag /\ IoWrite(s, <<"LF">>) # "OK"
    THEN [err |-> IoWrite(s, <<"LF">>), returns |-> FALSE, data |-> << >>]
    ELSE [err |-> "OK", returns |-> TRUE, data |-> line(st)]

(* the turn of the loop in raw mode, the chunk decoded                     *)
RawTurn(s, flag, strVal) ==
    IF "ECHO" \in flag /\ IoWrite(s, strVal) # "OK"
    THEN [err |-> IoWrite(s, strVal), returns |-> FALSE, data |-> << >>]
    ELSE [err |-> "OK", returns |-> TRUE, data |-> strVal]

(* a process call that is not made leaves the instance and its locals      *)
NotProcessed == Locals(Instance, << >>)

IoTurn(s, r, flag) ==
    IF r.err # "OK"
    THEN [st |-> NotProcessed, out |-> [err |-> r.err, returns |-> FALSE, data |-> << >>]]
    ELSE IF "READ_LINE" \in flag
    THEN [st |-> process(Instance, r.data),
          out |-> LineTurn(s, flag, process(Instance, r.data))]
    ELSE [st |-> NotProcessed, out |-> RawTurn(s, flag, r.data)]

IoSettle(t, value) ==
    /\ buffer' = t.st.buffer
    /\ hasEnded' = t.st.hasEnded
    /\ chars' = t.st.chars
    /\ response' = t.st.response
    /\ shiftCount' = t.st.shiftCount
    /\ step' = [value |-> value, before |-> Instance]
    /\ pc' = IF t.out.returns THEN "io.returned"
             ELSE IF t.out.err = "PENDING" THEN "awaiting" ELSE "io.thrown"
    /\ last' = IoCall(last.n, last.h, last.flags, last.ret + 1, t.out.err, t.out.data,
                      IF "READ_LINE" \in last.flags THEN process(last.fed, value)
                      ELSE last.fed)

DeviceRead(value) ==
    /\ pc = "awaiting"
    /\ last.ret < MaxChunks
    /\ Len(line(Instance)) <= MaxLine
    /\ IoSettle(IoTurn(State, ReadOp(Delivering(State, value), last.h, Infinity), last.flags),
                value)
    /\ UNCHANGED <<fs, fd, uid, gid, closed, perm>>
    /\ UNCHANGED execVars

(***************************************************************************)
(* SpecRead: io.read calls of a process whose descriptors 0 and 1 are the  *)
(* terminal device, open for reading and for writing.                      *)
(***************************************************************************)
StdFds ==
    [k \in {0, 1} |-> FdData(Tty, IF k = 0 THEN {"READ"} ELSE {"WRITE"}, 0)]

TtyTree ==
    Plant(Plant(BaseTree, <<"dev">>, NewDirectory(493)),
          Tty, Entry("device", 0, 0, 438, << >>, << >>))

InitRead ==
    /\ ProcInit(TtyTree, StdFds)
    /\ LineIdle
    /\ PermIdle

NextRead ==
    \/ \E flag \in StdReadFlags : IoRead(0, flag)
    \/ \E value \in (IF pc = "awaiting" THEN Values ELSE {}) : DeviceRead(value)

SpecRead == InitRead /\ [][NextRead]_vars

(***************************************************************************)
(* C21.  A line-mode io.read call feeds every chunk it receives to one     *)
(* instance, is in its await as long as no newline has been consumed, and  *)
(* ends only by returning, when the first newline is consumed; the value   *)
(* it returns is the line the chunks of this call make of a new instance,  *)
(* the last one cut before its first line ending.  What follows the line   *)
(* ending in the chunk is dropped: the next call starts on a new instance  *)
(* with nothing left to take.                                              *)
(***************************************************************************)
LineMode == last.op = "io.read" /\ "READ_LINE" \in last.flags

C21_LineRead ==
    LineMode =>
        /\ pc # "io.thrown"
        /\ pc = "awaiting" => (~hasEnded /\ Instance = [buffer |-> last.fed.buffer,
                                                        hasEnded |-> last.fed.hasEnded])
        /\ (pc = "awaiting" /\ last.ret = 0) => (buffer = NewInstance.buffer /\ chars = << >>)
        /\ pc = "io.returned" =>
              /\ hasEnded
              /\ ~Before.hasEnded
              /\ FirstLineEnding(step.value) # 0
              /\ last.data = last.fed.buffer.backward \o last.fed.buffer.forward
              /\ last.data = line(process(Before, SubSeq(step.value, 1,
                                                         FirstLineEnding(step.value) - 1)))

(* what the code does: the same, but for the calls that process ends by    *)
(* throwing                                                                *)
C21_LineReadUnlessThrown ==
    LineMode =>
        /\ pc = "io.thrown" => (last.err = "TypeError" /\ ~hasEnded)
        /\ pc = "awaiting" => (~hasEnded /\ Instance = [buffer |-> last.fed.buffer,
                                                        hasEnded |-> last.fed.hasEnded])
        /\ (pc = "awaiting" /\ last.ret = 0) => (buffer = NewInstance.buffer /\ chars = << >>)
        /\ pc = "io.returned" =>
              /\ hasEnded
              /\ ~Before.hasEnded
              /\ FirstLineEnding(step.value) # 0
              /\ last.data = last.fed.buffer.backward \o last.fed.buffer.forward
              /\ last.data = line(process(Before, SubSeq(step.value, 1,
                                                         FirstLineEnding(step.value) - 1)))

(* a second call has returned the line its own two chunks make             *)
C21_SecondLine ==
    /\ LineMode
    /\ pc = "io.returned"
    /\ last.n = 2
    /\ last.ret = 2
    /\ last.data = <<"a", "b">>

(* a call that process has ended by throwing, the chunk before it in the   *)
(* instance                                                                *)
C21_ReadThrown ==
    /\ LineMode
    /\ pc = "io.thrown"
    /\ last.ret = 2
    /\ line(Instance) # << >>

(***************************************************************************)
(* The row of the terminal the echo is written to: a printable character   *)
(* (a blank too) takes the cell under the cursor and advances the cursor   *)
(* by one column, ESC [ n D and ESC [ n C move the cursor, which stops at  *)
(* the left edge, and the bell does nothing.                               *)
(***************************************************************************)
Terminal(row, column) == [row |-> row, column |-> column]

Put(row, column, c) ==
    [i \in 1..(IF column + 1 > Len(row) THEN column + 1 ELSE Len(row)) |->
        IF i = column + 1 THEN c ELSE IF i <= Len(row) THEN row[i] ELSE " "]

LeftBy(column, n) == IF column - n < 0 THEN 0 ELSE column - n

RECURSIVE Show(_, _)
Show(str, t) ==
    IF str = << >> THEN t
    ELSE IF str[1] = "ESC"
    THEN Show(SubSeq(str, 5, Len(str)),
              Terminal(t.row,
                       CASE str[4] = "D" -> LeftBy(t.column, Amount(str[3]))
                         [] str[4] = "C" -> t.column + Amount(str[3])
                         [] OTHER -> t.column))
    ELSE IF str[1] = "BEL" THEN Show(Tail(str), t)
    ELSE Show(Tail(str), Terminal(Put(t.row, t.column, str[1]), t.column + 1))

(* the row shows the text, followed only by blanks                         *)
ShowsLine(row, text) ==
    /\ Len(row) >= Len(text)
    /\ SubSeq(row, 1, Len(text)) = text
    /\ \A i \in (Len(text) + 1)..Len(row) : row[i] = " "

(* the terminal after the call, when it showed the line before the call    *)
Shown == Show(Echo, Terminal(line(Before), Len(Before.buffer.backward)))

(***************************************************************************)
(* SpecEdit: one call of process, and those that follow it, on an instance *)
(* at rest that holds text on both sides of its cursor: backward and       *)
(* forward are each up to MaxText letters.                                 *)
(***************************************************************************)
MaxText == 2

Texts == UNION {[1..n -> {"a", "b"}] : n \in 0..MaxText}

InitEdit ==
    /\ \E backward \in Texts, forward \in Texts :
          buffer = [forward |-> forward, backward |-> backward]
    /\ hasEnded = NewInstance.hasEnded
    /\ chars = << >>
    /\ response = << >>
    /\ shiftCount = 0
    /\ pc = "resumed"
    /\ step = NoStep
    /\ ProcIdle
    /\ PermIdle

NextEdit ==
    \/ \E value \in (IF Feedable THEN Values ELSE {}) : Process(value)
    \/ Resume

SpecEdit == InitEdit /\ [][NextEdit]_vars

(***************************************************************************)
(* C22.  From a row that shows backward+forward with the cursor on column  *)
(* length(backward), the echo of a call that consumed no newline leaves    *)
(* the row showing the new backward+forward, followed only by blanks.      *)
(***************************************************************************)
C22_EchoShowsLine ==
    (Called /\ NoNewline) => ShowsLine(Shown.row, line(Instance))

(* what the code does: the row is kept by a call that returns on a chunk   *)
(* of one key, on characters of one UTF-16 code unit each                  *)
C22_OneKeyShowsLine ==
    (pc = "returned" /\ NoNewline /\ ~Before.hasEnded /\ step.value \in Keys
        /\ Basic(line(Before)) /\ Basic(step.value)) =>
        ShowsLine(Shown.row, line(Instance))

(* a backspace and then a right key in one chunk, on the line "ab" with    *)
(* the cursor between its letters: the line is "b", the row shows "a"      *)
C22_StaleRow ==
    /\ pc = "returned"
    /\ step.value = <<"DEL">> \o KeyRight
    /\ Before.buffer = [forward |-> <<"b">>, backward |-> <<"a">>]
    /\ line(Instance) = <<"b">>
    /\ Shown.row = <<"a", " ">>

====
